---- MODULE Spec2Model ----
(***************************************************************************)
(* Task orchestration and voice cache of the CosyVoice2 API server.        *)
(*                                                                         *)
(* The subsystems are modelled side by side, each with its own             *)
(* specification over the same variables:                                  *)
(*   SpecA  app/core/async_synthesis.py          (dataclass manager, no    *)
(*          lock, cancel_task, periodic sweep)                             *)
(*   SpecB  app/core/async_synthesis_manager.py  (manager wired in         *)
(*          main.py: task lock, stop(), callback) together with the        *)
(*          synthesis engine and the voice manager / voice cache it calls  *)
(*   SpecV  app/core/voice_manager.py, voice_cache.py (the add_voice       *)
(*          pipeline and the voice store, one client; SpecVC: several)     *)
(*   SpecS  app/core/voice_cache.py  (the store with its backing file,     *)
(*          stops and restarts; SpecL: started on any cache file;          *)
(*          SpecQ: with the listings)                                      *)
(*   SpecE  app/core/synthesis_engine.py  (the chunk loop of one call)     *)
(*   SpecT  app/api/v1/tasks.py  (the task endpoints and their background  *)
(*          job; SpecTFair: every scheduled job is run)                    *)
(*   SpecD  manager B next to one mutation of the voice store (the two     *)
(*          locks); SpecR: the store with delete_voice step by step;       *)
(*          SpecP: SpecV with a model that has speakers of its own         *)
(*                                                                         *)
(* The server runs on one asyncio event loop.  A coroutine runs without    *)
(* interruption up to its next real suspension (an executor future, an     *)
(* aiofiles write, an HTTP call); "await" of a coroutine that does not     *)
(* suspend, and "async with lock" on a free asyncio.Lock, do not yield.    *)
(* Every action below is one such run-to-suspension segment, or one step   *)
(* of a worker thread.                                                     *)
(***************************************************************************)
EXTENDS Integers, Sequences, FiniteSets, TLC

\* ---------------------------------------------------------------- bounds
MaxTasks == 2
MaxTime == 1
\* retention window of the sweep, in clock ticks (7200 s in the source)
MaxTaskAge == 0

TaskIds == 1..MaxTasks
\* an id that was never handed out, used for calls with an unknown task_id
UnknownId == MaxTasks + 1

NULL == "None"
\* None where the value would be a path or a message (a sequence of tokens)
NoPath == <<>>
NoMsg == <<>>
\* None where the value would be a measured quantity (a one-token sequence)
NoValue == <<>>
\* None where the value would be a timestamp
NoTime == 0 - 1

PENDING == "pending"
PROCESSING == "processing"
COMPLETED == "completed"
FAILED == "failed"
Terminal == {COMPLETED, FAILED}

\* progress is kept in tenths: 0.0, 0.1, 0.3, 1.0 are 0, 1, 3, 10

VARIABLES
  now,        \* time.time() / datetime.now(), in ticks
  ret,        \* response of the latest API call [op, arg, val, seq]
  a_tasks,    \* async_synthesis.AsyncSynthesisManager.tasks
  a_pc,       \* position of each _process_sft_task coroutine
  b_tasks,    \* async_synthesis_manager.AsyncSynthesisManager.tasks
  b_pc,       \* position of each _process_task_async coroutine / its worker
  b_req,      \* task.request as held by each coroutine (the task object
              \* stays reachable from it after the record left the map)
  b_fut,      \* outcome of the executor future each coroutine awaits
  b_lock,     \* holder of AsyncSynthesisManager._lock
  running_tasks, \* AsyncSynthesisManager.running_tasks
  running,    \* AsyncSynthesisManager.running
  model_loaded,  \* VoiceManager._get_active_model() is not None
  voices,     \* VoiceCache.voices
  files,      \* the file system: path -> content
  spk2info,   \* model.frontend.spk2info, the engine's speaker table
  initialized,   \* VoiceManager._initialized
  db_file,    \* content of the voice cache file (settings.VOICE_CACHE_DB)
  v_pc,       \* position of each add_voice call
  v_args,     \* arguments of each add_voice call in progress
  tmp_file,   \* content of the cache file's sibling with suffix .tmp
  s_pc,       \* position of the server process inside a store mutation
  s_call,     \* the store mutation in progress
  s_n,        \* store mutations called so far
  e_call,     \* arguments of the engine's synthesis call in progress
  e_pc,       \* position of the worker thread inside _sync_synthesis
  e_entry,    \* the inference entry point of the model that was invoked
  chunk_count,     \* chunk_count of the loop over the model's outputs
  all_audio_data,  \* the chunks collected so far, in the order they were added
  tasks_storage,   \* api/v1/tasks.py: tasks_storage
  tasks_lock,      \* api/v1/tasks.py: the coroutine holding tasks_lock
  t_pc,            \* position of each process_task_background coroutine
  t_req            \* the request argument of each process_task_background

vars == <<now, ret, a_tasks, a_pc, b_tasks, b_pc, b_req, b_fut, b_lock, running_tasks,
          running, model_loaded, voices, files, spk2info, initialized, db_file,
          v_pc, v_args, tmp_file, s_pc, s_call, s_n,
          e_call, e_pc, e_entry, chunk_count, all_audio_data,
          tasks_storage, tasks_lock, t_pc, t_req>>

a_vars == <<a_tasks, a_pc>>
b_vars == <<b_tasks, b_pc, b_req, b_fut, b_lock, running_tasks, running>>
\* the add_voice calls in progress
c_vars == <<v_pc, v_args>>
\* a store mutation in progress and the temporary file it writes
s_vars == <<tmp_file, s_pc, s_call, s_n>>
\* a synthesis call of the engine in progress
e_vars == <<e_call, e_pc, e_entry, chunk_count, all_audio_data>>
\* the task endpoints of api/v1/tasks.py
t_vars == <<tasks_storage, tasks_lock, t_pc, t_req>>
v_vars == <<model_loaded, voices, files, spk2info, initialized, db_file, c_vars, s_vars>>

\* the response of an API call; seq flips on every call
Return(op, arg, val) ==
  [op |-> op, arg |-> arg, val |-> val, raised |-> FALSE, seq |-> 1 - ret.seq]

\* time passes
Tick ==
  /\ now < MaxTime
  /\ now' = now + 1
  /\ UNCHANGED <<ret, a_vars, b_vars, v_vars, e_vars, t_vars>>

\* ------------------------------------------------------------------------
\* Manager A: app/core/async_synthesis.py
\* ------------------------------------------------------------------------

\* str(e) of what the engine call raises
EngineErrors == {"synthesis error"}

\* SynthesisTask(task_id, status=PENDING, created_at=time.time())
NewSynthesisTask ==
  [status |-> PENDING, created_at |-> now, started_at |-> NoTime,
   completed_at |-> NoTime, result |-> NULL, error |-> NULL, progress |-> 0]

\* generate_task_id: a uuid, never one handed out before
a_FreshIds == {t \in TaskIds : a_pc[t] = "none" /\ \A u \in TaskIds : u < t => a_pc[u] # "none"}

\* submit_sft_task: insert the record, create_task(_process_sft_task), return the id
submit_sft_task(t) ==
  /\ t \in a_FreshIds
  /\ a_tasks' = [u \in DOMAIN a_tasks \cup {t} |->
                   IF u = t THEN NewSynthesisTask ELSE a_tasks[u]]
  /\ a_pc' = [a_pc EXCEPT ![t] = "scheduled"]
  /\ ret' = Return("submit", t, t)
  /\ UNCHANGED <<t_vars, e_vars, now, b_vars, v_vars>>

\* what get_task_status(task_id) answers: self.tasks.get(task_id)
a_TaskStatus(t) == IF t \in DOMAIN a_tasks THEN a_tasks[t] ELSE NULL

\* get_task_status: a read of the map, nothing changes
a_get_task_status(t) ==
  /\ UNCHANGED <<t_vars, e_vars, now, ret, a_vars, b_vars, v_vars>>

\* cancel_task with the status test removed
cancel_task_any_status(t) ==
  /\ IF t \in DOMAIN a_tasks
     THEN /\ a_tasks' = [a_tasks EXCEPT ![t].status = FAILED,
                                        ![t].error = "Task cancelled by user",
                                        ![t].completed_at = now]
          /\ ret' = Return("cancel_task", t, TRUE)
     ELSE /\ ret' = Return("cancel_task", t, FALSE)
          /\ UNCHANGED a_tasks
  /\ UNCHANGED <<t_vars, e_vars, now, a_pc, b_vars, v_vars>>

\* cancel_task
cancel_task(t) ==
  /\ IF t \in DOMAIN a_tasks /\ a_tasks[t].status = PENDING
     THEN /\ a_tasks' = [a_tasks EXCEPT ![t].status = FAILED,
                                        ![t].error = "Task cancelled by user",
                                        ![t].completed_at = now]
          /\ ret' = Return("cancel_task", t, TRUE)
     ELSE /\ ret' = Return("cancel_task", t, FALSE)
          /\ UNCHANGED a_tasks
  /\ UNCHANGED <<t_vars, e_vars, now, a_pc, b_vars, v_vars>>

\* _process_sft_task, first segment: task = self.tasks[task_id] (KeyError when
\* the record was swept: the coroutine dies), then PROCESSING, started_at,
\* progress 0.1 and the engine call is awaited
a_process_start(t) ==
  /\ a_pc[t] = "scheduled"
  /\ IF t \in DOMAIN a_tasks
     THEN /\ a_tasks' = [a_tasks EXCEPT ![t].status = PROCESSING,
                                        ![t].started_at = now,
                                        ![t].progress = 1]
          /\ a_pc' = [a_pc EXCEPT ![t] = "synth"]
     ELSE /\ a_pc' = [a_pc EXCEPT ![t] = "crashed"]
          /\ UNCHANGED a_tasks
  /\ UNCHANGED <<t_vars, e_vars, now, ret, b_vars, v_vars>>

\* _process_sft_task, the engine call returned: result, COMPLETED, 1.0.
\* The coroutine writes to the task object it holds; a swept record is no
\* longer in the map.
a_process_ok(t) ==
  /\ a_pc[t] = "synth"
  /\ a_tasks' = IF t \in DOMAIN a_tasks
                THEN [a_tasks EXCEPT ![t].result = "result",
                                     ![t].status = COMPLETED,
                                     ![t].progress = 10,
                                     ![t].completed_at = now]
                ELSE a_tasks
  /\ a_pc' = [a_pc EXCEPT ![t] = "done"]
  /\ UNCHANGED <<t_vars, e_vars, now, ret, b_vars, v_vars>>

\* _process_sft_task, the engine call raised: FAILED, error = str(e)
a_process_fail(t, e) ==
  /\ a_pc[t] = "synth"
  /\ a_tasks' = IF t \in DOMAIN a_tasks
                THEN [a_tasks EXCEPT ![t].status = FAILED,
                                     ![t].error = e,
                                     ![t].completed_at = now]
                ELSE a_tasks
  /\ a_pc' = [a_pc EXCEPT ![t] = "done"]
  /\ UNCHANGED <<t_vars, e_vars, now, ret, b_vars, v_vars>>

\* a sweep that spares the tasks still pending or processing
a_cleanup_old_finished ==
  /\ a_tasks' = [u \in {v \in DOMAIN a_tasks :
                          ~(a_tasks[v].status \in Terminal
                            /\ now - a_tasks[v].created_at > MaxTaskAge)}
                   |-> a_tasks[u]]
  /\ UNCHANGED <<t_vars, e_vars, now, ret, a_pc, b_vars, v_vars>>

\* _cleanup_old_tasks, one round: every task older than the window is removed
a_cleanup_old_tasks ==
  /\ a_tasks' = [u \in {v \in DOMAIN a_tasks : ~(now - a_tasks[v].created_at > MaxTaskAge)}
                   |-> a_tasks[u]]
  /\ UNCHANGED <<t_vars, e_vars, now, ret, a_pc, b_vars, v_vars>>

\* ------------------------------------------------------------------------
\* Voice store and synthesis engine, as far as task execution reads them
\* ------------------------------------------------------------------------
VoiceIds == {"v1", "v2"}

\* file_manager.get_voice_audio_path(voice_id, audio_format)
get_voice_audio_path(v, fmt) == <<"voice_cache/audio", v, fmt>>

\* file_manager.get_output_audio_path(f"cross_lingual_cache_{uuid}.{format}"):
\* one fresh name per synthesis call
get_output_audio_path(t) == <<"outputs", "cross_lingual_cache", t>>

\* error texts, as the tokens they are put together from
MsgModelNotReady == <<"CosyVoice model not ready">>
\* a lookup failure worded without "not found"
MsgVoiceMissing(v) == <<"Cached voice", v, "unavailable">>
MsgVoiceNotFound(v) == <<"Cached voice", v, "not found">>
MsgNoAudio == <<"No audio generated">>
MsgLoadWav == <<"Error opening audio file">>
MsgInference == <<"inference error">>

\* SynthesisError(f"Cross-lingual synthesis failed: {str(e)}")
SynthesisError(msg) == <<"Cross-lingual synthesis failed:">> \o msg

\* "needle in str(e)"
Contains(msg, needle) == \E i \in DOMAIN msg : msg[i] = needle

\* an exception leaving a call: its class and str(e)
Exc(kind, msg) == [kind |-> kind, msg |-> msg]

\* the call op(arg) ends with an exception
Raise(op, arg, kind, msg) ==
  [op |-> op, arg |-> arg, val |-> Exc(kind, msg), raised |-> TRUE, seq |-> 1 - ret.seq]

\* _save_to_disk: print("Error: Failed to save voice cache"), raise
MsgSaveFailed == <<"Failed to save voice cache">>

\* a removal from a function
Without(f, x) == [y \in DOMAIN f \ {x} |-> f[y]]

\* f with x bound to val
With(f, x, val) == [y \in DOMAIN f \cup {x} |-> IF y = x THEN val ELSE f[y]]

\* ------------------------------------------------------------------------
\* Voice store: app/core/voice_cache.py
\* ------------------------------------------------------------------------

\* VoiceInDB(**voice_create.dict(), created_at=now, updated_at=now, ...): the
\* record VoiceCache.add_voice builds (duration and sample_rate travel with
\* file_size, is_active keeps its default)
VoiceInDB(vc, audio_file_path, model_data, file_size) ==
  [voice_id |-> vc.voice_id, name |-> vc.name, description |-> vc.description,
   voice_type |-> vc.voice_type, language |-> vc.language,
   prompt_text |-> vc.prompt_text, audio_format |-> vc.audio_format,
   created_at |-> now, updated_at |-> now,
   audio_file_path |-> audio_file_path, model_data |-> model_data,
   file_size |-> file_size]

\* datetime.isoformat() and datetime.fromisoformat()
isoformat(t) == <<"iso", t>>
fromisoformat(x) == x[2]

\* voice.dict() with both timestamps turned into ISO strings
voice_dict(voice) ==
  [voice EXCEPT !.created_at = isoformat(voice.created_at),
                !.updated_at = isoformat(voice.updated_at)]

\* VoiceInDB(**voice_data) accepts the entry: the required string fields are
\* there (pydantic rejects None for voice_id, name, voice_type)
Validates(voice_data) ==
  /\ voice_data.voice_id # NULL
  /\ voice_data.name # NULL
  /\ voice_data.voice_type # NULL

\* datetime.fromisoformat accepts both timestamps of the entry (it raises
\* ValueError for any other string)
Parses(voice_data) ==
  /\ voice_data.created_at[1] = "iso"
  /\ voice_data.updated_at[1] = "iso"

\* the entry of a cache file read back into a record
parse_voice(voice_data) ==
  [voice_data EXCEPT !.created_at = fromisoformat(voice_data.created_at),
                     !.updated_at = fromisoformat(voice_data.updated_at)]

\* the voice_ids in the order the JSON object lists them
VoiceOrder == <<"v1", "v2">>

\* a file holding a JSON object: the entries written so far, and whether the
\* closing brace is there
NoFile == [exists |-> FALSE, entries |-> <<>>, closed |-> FALSE]
\* open(temp_file, 'w')
EmptyFile == [exists |-> TRUE, entries |-> <<>>, closed |-> FALSE]

\* the entries json.dump writes for the map vs
Entries(vs) ==
  LET ids == SelectSeq(VoiceOrder, LAMBDA v : v \in DOMAIN vs)
  IN  [i \in 1..Len(ids) |-> [key |-> ids[i], value |-> voice_dict(vs[ids[i]])]]

\* _save_to_disk: the complete document for the map vs
Dump(vs) == [exists |-> TRUE, entries |-> Entries(vs), closed |-> TRUE]

\* a load whose loop over the entries has no try block of its own: the first
\* entry that fails sends the whole load to the outer except branch
Load_all_or_nothing(doc) ==
  IF ~doc.exists \/ ~doc.closed
     \/ \E i \in DOMAIN doc.entries :
          ~(Parses(doc.entries[i].value) /\ Validates(doc.entries[i].value))
  THEN [v \in {} |-> NULL]
  ELSE [v \in {doc.entries[i].key : i \in DOMAIN doc.entries} |->
          parse_voice((CHOOSE e \in {doc.entries[i] : i \in DOMAIN doc.entries} : e.key = v).value)]

\* _load_from_disk: no file, or a file json.load rejects, gives the empty map;
\* an entry whose timestamps do not parse or that fails validation is skipped
Load(doc) ==
  IF ~doc.exists \/ ~doc.closed
  THEN [v \in {} |-> NULL]
  ELSE LET ok == {i \in DOMAIN doc.entries :
                    Parses(doc.entries[i].value) /\ Validates(doc.entries[i].value)}
       IN  [v \in {doc.entries[i].key : i \in ok} |->
              parse_voice((CHOOSE e \in {doc.entries[i] : i \in ok} : e.key = v).value)]

\* delete_voice that removes the speaker and the audio file and keeps the record
delete_voice_keep_record(v, persist_ok) ==
  /\ spk2info' = spk2info \ {v}
  /\ IF v \in DOMAIN voices
     THEN /\ files' = Without(files, voices[v].audio_file_path)
          /\ ret' = Return("delete_voice", v, TRUE)
     ELSE /\ ret' = Return("delete_voice", v, FALSE)
          /\ UNCHANGED files
  /\ UNCHANGED <<t_vars, e_vars, now, voices, a_vars, b_vars, s_vars, model_loaded, initialized, db_file, c_vars>>

\* VoiceCache.get_voice: self.voices.get(voice_id), None as the empty sequence
get_voice(v) == IF v \in DOMAIN voices THEN <<voices[v]>> ELSE <<>>

\* VoiceCache.voice_exists
voice_exists(v) == v \in DOMAIN voices

\* list(self.voices.values()): the records in the order of the dict
voice_list(vs) ==
  LET ids == SelectSeq(VoiceOrder, LAMBDA v : v \in DOMAIN vs)
  IN  [i \in 1..Len(ids) |-> vs[ids[i]]]

\* seq[start:end] for 0 <= start <= end
Slice(seq, start, end) ==
  LET stop == IF end < Len(seq) THEN end ELSE Len(seq)
  IN  [i \in 1..(stop - start) |-> seq[start + i]]

\* the arguments of a listing: a filter left out is None; the endpoint admits
\* page >= 1 and 1 <= page_size <= 100
VoiceTypeFilters == {NULL, "zero_shot", "sft"}
LanguageFilters == {NULL, "", "new"}
Pages == 1..2
PageSizes == 1..2

\* a listing that counts what is on the page
list_voices_page_total(voice_type, language, page, page_size) ==
  LET all == voice_list(voices)
      by_type == IF voice_type # NULL
                 THEN SelectSeq(all, LAMBDA v : v.voice_type = voice_type) ELSE all
      by_language == IF language \notin {NULL, ""}
                     THEN SelectSeq(by_type, LAMBDA v : v.language = language) ELSE by_type
      start == (page - 1) * page_size
      page_voices == Slice(by_language, start, start + page_size)
  IN  [voices |-> page_voices, total |-> Len(page_voices)]

\* VoiceCache.list_voices: what it answers in the current state ("if
\* voice_type:", "if language:" skip a filter that is None or empty)
list_voices_result(voice_type, language, page, page_size) ==
  LET all == voice_list(voices)
      by_type == IF voice_type # NULL
                 THEN SelectSeq(all, LAMBDA v : v.voice_type = voice_type) ELSE all
      by_language == IF language \notin {NULL, ""}
                     THEN SelectSeq(by_type, LAMBDA v : v.language = language) ELSE by_type
      total == Len(by_language)
      start == (page - 1) * page_size
      end == start + page_size
  IN  [voices |-> Slice(by_language, start, end), total |-> total]

\* list_voices: a read of the map (it takes no lock and does not suspend)
list_voices(voice_type, language, page, page_size) ==
  /\ s_pc # "down"
  /\ UNCHANGED <<t_vars, e_vars, now, ret, a_vars, b_vars, v_vars>>

\* delete_voice that answers True whether or not it found a record
delete_voice_always_true(v, persist_ok) ==
  /\ spk2info' = spk2info \ {v}
  /\ IF v \in DOMAIN voices
     THEN /\ files' = Without(files, voices[v].audio_file_path)
          /\ voices' = Without(voices, v)
          /\ IF persist_ok
             THEN /\ db_file' = Dump(voices')
                  /\ ret' = Return("delete_voice", v, TRUE)
             ELSE /\ ret' = Raise("delete_voice", v, "Exception", MsgSaveFailed)
                  /\ UNCHANGED db_file
     ELSE /\ ret' = Return("delete_voice", v, TRUE)
          /\ UNCHANGED <<voices, files, db_file>>
  /\ UNCHANGED <<t_vars, e_vars, now, a_vars, b_vars, s_vars, model_loaded, initialized, c_vars>>

\* VoiceManager.delete_voice: drop the speaker from spk2info, then
\* VoiceCache.delete_voice under the cache lock: remove the audio file, the
\* record, _save_to_disk (which re-raises when the write fails).  Nothing in
\* it suspends.
delete_voice(v, persist_ok) ==
  /\ spk2info' = spk2info \ {v}
  /\ IF v \in DOMAIN voices
     THEN /\ files' = Without(files, voices[v].audio_file_path)
          /\ voices' = Without(voices, v)
          /\ IF persist_ok
             THEN /\ db_file' = Dump(voices')
                  /\ ret' = Return("delete_voice", v, TRUE)
             ELSE /\ ret' = Raise("delete_voice", v, "Exception", MsgSaveFailed)
                  /\ UNCHANGED db_file
     ELSE /\ ret' = Return("delete_voice", v, FALSE)
          /\ UNCHANGED <<voices, files, db_file>>
  /\ UNCHANGED <<t_vars, e_vars, now, a_vars, b_vars, s_vars, model_loaded, initialized, c_vars>>

\* ------------------------------------------------------------------------
\* Voice manager: app/core/voice_manager.py, app/core/voice_cache.py
\* ------------------------------------------------------------------------

\* add_voice calls that can be in progress at once
MaxCalls == 2
\* store mutations (add, update, delete) called in one run
MaxMutations == 2
Callers == 1..MaxCalls

\* VoiceCreate, the fields the pipeline reads
VoiceShapes ==
  { [voice_type |-> "zero_shot", audio_format |-> "mp3", prompt_text |-> NULL],
    [voice_type |-> "sft", audio_format |-> "wav", prompt_text |-> NULL] }

VoiceCreates ==
  { [voice_id |-> v, name |-> "name", description |-> NULL, language |-> NULL,
     voice_type |-> sh.voice_type, audio_format |-> sh.audio_format,
     prompt_text |-> sh.prompt_text] : v \in VoiceIds, sh \in VoiceShapes }

\* what the uploaded bytes are: a usable sample, one shorter than 0.5 s, one
\* above MAX_FILE_SIZE
Qualities == {"good", "too_short", "too_large"}

\* no call in progress
NoCall == [voice_create |-> NULL, quality |-> NULL]

\* the bytes uploaded by call c
Upload(c) == <<"upload", c>>

\* file_manager.save_temp_file: temp_dir / unique name
TempPath(c) == <<"temp", c>>

ClonedTypes == {"zero_shot", "cross_lingual"}

MsgAlreadyExists(v) == <<"Voice with ID", v, "already exists">>
MsgInvalidAudio(why) == <<"Invalid audio file:", why>>

\* the exception handlers of the create_voice endpoint
create_voice_status(kind) ==
  CASE kind = "VoiceInDB" -> 201
    [] kind = "VoiceAlreadyExistsError" -> 409
    [] kind = "AudioProcessingError" -> 422
    [] kind = "ValueError" -> 400
    [] OTHER -> 500

\* add_voice leaves with result val: the caller gets it, the call is over
av_return(c, v, val) ==
  /\ ret' = [Return("add_voice", v, val) EXCEPT !.raised = (val.kind # "VoiceInDB")]
  /\ v_pc' = [v_pc EXCEPT ![c] = "idle"]
  /\ v_args' = [v_args EXCEPT ![c] = NoCall]

\* add_voice, up to the aiofiles write of save_temp_file
add_voice_call(c, vc, q) ==
  /\ v_pc[c] = "idle"
  /\ IF ~initialized
     THEN /\ ret' = Raise("add_voice", vc.voice_id,
                          "RuntimeError", <<"Voice manager not initialized">>)
          /\ UNCHANGED c_vars
     ELSE IF vc.voice_id \in DOMAIN voices
     THEN /\ ret' = Raise("add_voice", vc.voice_id,
                          "ValueError", MsgAlreadyExists(vc.voice_id))
          /\ UNCHANGED c_vars
     ELSE /\ v_pc' = [v_pc EXCEPT ![c] = "saving_temp"]
          /\ v_args' = [v_args EXCEPT ![c] = [voice_create |-> vc, quality |-> q]]
          /\ UNCHANGED ret
  /\ UNCHANGED <<t_vars, e_vars, now, a_vars, b_vars, s_vars, model_loaded, voices, files, spk2info,
                 initialized, db_file>>

\* the temp file is written; validate_audio_file up to its _get_audio_info
av_temp_saved(c) ==
  /\ v_pc[c] = "saving_temp"
  /\ IF v_args[c].quality = "too_large"
     THEN \* rejected on its size, the temp file is deleted again
          /\ av_return(c, v_args[c].voice_create.voice_id,
                       Exc("ValueError", MsgInvalidAudio("File size exceeds maximum allowed size")))
          /\ UNCHANGED files
     ELSE /\ files' = With(files, TempPath(c), Upload(c))
          /\ v_pc' = [v_pc EXCEPT ![c] = "validating"]
          /\ UNCHANGED <<ret, v_args>>
  /\ UNCHANGED <<t_vars, e_vars, now, a_vars, b_vars, s_vars, model_loaded, voices, spk2info, initialized, db_file>>

\* validate_audio_file resumed with the audio info; a valid file is probed
\* once more by add_voice itself
av_validated(c) ==
  /\ v_pc[c] = "validating"
  /\ IF v_args[c].quality = "good"
     THEN /\ v_pc' = [v_pc EXCEPT ![c] = "probing"]
          /\ UNCHANGED <<ret, v_args, files>>
     ELSE /\ files' = Without(files, TempPath(c))
          /\ av_return(c, v_args[c].voice_create.voice_id,
                       Exc("ValueError", MsgInvalidAudio("Audio duration is too short")))
  /\ UNCHANGED <<t_vars, e_vars, now, a_vars, b_vars, s_vars, model_loaded, voices, spk2info, initialized, db_file>>

\* VoiceCache.add_voice followed by the rest of VoiceManager.add_voice:
\* under the cache lock the id is checked again, the record inserted and the
\* cache file rewritten; then the speaker is added to spk2info
cache_add_voice(c, files1, model_data, persist_ok) ==
  LET vc == v_args[c].voice_create
      v == vc.voice_id
      target == get_voice_audio_path(v, vc.audio_format)
      voice == VoiceInDB(vc, target, model_data,
                         IF target \in DOMAIN files1 THEN files1[target] ELSE NoValue)
  IN  IF v \in DOMAIN voices
      THEN /\ av_return(c, v, Exc("ValueError", MsgAlreadyExists(v)))
           /\ UNCHANGED <<voices, db_file, spk2info>>
      ELSE /\ voices' = With(voices, v, voice)
           /\ IF persist_ok
              THEN /\ db_file' = Dump(voices')
                   /\ spk2info' = IF model_data # NULL /\ vc.voice_type \in ClonedTypes
                                     /\ model_loaded
                                  THEN spk2info \cup {v} ELSE spk2info
                   /\ av_return(c, v, Exc("VoiceInDB", <<>>))
              ELSE /\ av_return(c, v, Exc("Exception", MsgSaveFailed))
                   /\ UNCHANGED <<db_file, spk2info>>

\* add_voice once the audio is at its target path (files1): the temp file is
\* deleted; a cloned voice gets its model data from load_wav in the executor,
\* any other voice is inserted at once
av_stored(c, files1, persist_ok) ==
  LET files2 == Without(files1, TempPath(c))
  IN  IF v_args[c].voice_create.voice_type \in ClonedTypes /\ model_loaded
      THEN /\ files' = files2
           /\ v_pc' = [v_pc EXCEPT ![c] = "extracting"]
           /\ UNCHANGED <<ret, v_args, voices, db_file, spk2info>>
      ELSE /\ files' = files2
           /\ cache_add_voice(c, files2, NULL, persist_ok)

\* add_voice resumed with the second audio info: a wav upload is copied to
\* its target path (copy_file does not suspend), any other format is handed
\* to convert_audio_format in the executor
av_probed(c, copy_ok, persist_ok) ==
  /\ v_pc[c] = "probing"
  /\ LET vc == v_args[c].voice_create
         target == get_voice_audio_path(vc.voice_id, vc.audio_format)
     IN  IF vc.audio_format # "wav"
         THEN /\ v_pc' = [v_pc EXCEPT ![c] = "converting"]
              /\ UNCHANGED <<ret, v_args, files, voices, db_file, spk2info>>
         ELSE IF copy_ok /\ TempPath(c) \in DOMAIN files
         THEN av_stored(c, With(files, target, files[TempPath(c)]), persist_ok)
         ELSE /\ files' = Without(files, TempPath(c))
              /\ av_return(c, vc.voice_id, Exc("ValueError", <<"Failed to save audio file">>))
              /\ UNCHANGED <<voices, db_file, spk2info>>
  /\ UNCHANGED <<t_vars, e_vars, now, a_vars, b_vars, s_vars, model_loaded, initialized>>

\* add_voice resumed with the outcome of the conversion
av_converted(c, convert_ok, persist_ok) ==
  /\ v_pc[c] = "converting"
  /\ LET vc == v_args[c].voice_create
         target == get_voice_audio_path(vc.voice_id, vc.audio_format)
     IN  IF convert_ok /\ TempPath(c) \in DOMAIN files
         THEN av_stored(c, With(files, target, files[TempPath(c)]), persist_ok)
         ELSE /\ files' = Without(files, TempPath(c))
              /\ av_return(c, vc.voice_id, Exc("ValueError", <<"Failed to convert audio format">>))
              /\ UNCHANGED <<voices, db_file, spk2info>>
  /\ UNCHANGED <<t_vars, e_vars, now, a_vars, b_vars, s_vars, model_loaded, initialized>>

\* _generate_voice_model_data resumed with load_wav's outcome, then
\* frontend_zero_shot; any exception makes the model data None
av_extracted(c, extract_ok, persist_ok) ==
  /\ v_pc[c] = "extracting"
  /\ LET vc == v_args[c].voice_create
         target == get_voice_audio_path(vc.voice_id, vc.audio_format)
     IN  cache_add_voice(c, files,
                         IF extract_ok /\ target \in DOMAIN files THEN "embedding" ELSE NULL,
                         persist_ok)
  /\ UNCHANGED <<t_vars, e_vars, now, a_vars, b_vars, s_vars, model_loaded, initialized, files>>

\* ------------------------------------------------------------------------
\* The store's mutations with _save_to_disk taken one file operation at a
\* time, a crash of the server process, and its restart
\* ------------------------------------------------------------------------

\* VoiceUpdate: the fields a patch may set, and voice_update.dict(
\* exclude_unset=True) as a function from the fields that were set
UpdateFields == {"name", "description", "language"}
PatchValues == {"new", NULL}
EmptyPatch == [f \in {} |-> NULL]
VoiceUpdates == UNION {[S -> PatchValues] : S \in SUBSET UpdateFields}

\* no mutation in progress
NoMutation == [op |-> "none", arg |-> NULL, patch |-> EmptyPatch, model_data |-> NULL]

\* what a call answers when it returns an object: its class
VoiceReturned == Exc("VoiceInDB", <<>>)
NoneReturned == Exc("NoneType", <<>>)

\* the mutation holds the cache lock up to the end of _save_to_disk
begin_save(op, arg, patch, model_data) ==
  /\ s_pc' = "opening"
  /\ s_call' = [op |-> op, arg |-> arg, patch |-> patch, model_data |-> model_data]

\* VoiceCache.add_voice as VoiceManager.add_voice calls it (lines 196-204),
\* up to _save_to_disk
s_add_voice(vc, model_data) ==
  /\ s_pc = "idle"
  /\ s_n < MaxMutations
  /\ s_n' = s_n + 1
  /\ model_data # NULL => vc.voice_type \in ClonedTypes
  /\ IF vc.voice_id \in DOMAIN voices
     THEN /\ ret' = Raise("add_voice", vc.voice_id, "ValueError", MsgAlreadyExists(vc.voice_id))
          /\ UNCHANGED <<voices, s_pc, s_call>>
     ELSE /\ voices' = With(voices, vc.voice_id,
                            VoiceInDB(vc, get_voice_audio_path(vc.voice_id, vc.audio_format),
                                      model_data, NoValue))
          /\ begin_save("add_voice", vc.voice_id, EmptyPatch, model_data)
          /\ UNCHANGED ret
  /\ UNCHANGED <<t_vars, e_vars, now, a_vars, b_vars, model_loaded, files, spk2info, initialized, db_file,
                 c_vars, tmp_file>>

\* an update that assigns every field of VoiceUpdate, set or not
apply_update_all_fields(voice, patch) ==
  [f \in DOMAIN voice |->
     IF f = "updated_at" THEN now
     ELSE IF f \in DOMAIN patch THEN patch[f]
     ELSE IF f \in UpdateFields THEN NULL
     ELSE voice[f]]

\* the patch applied with setattr, field by field (no validation on
\* assignment), then updated_at
apply_update(voice, patch) ==
  [f \in DOMAIN voice |->
     IF f = "updated_at" THEN now
     ELSE IF f \in DOMAIN patch THEN patch[f]
     ELSE voice[f]]

\* update_voice without "async with self._lock": it may run while another
\* mutation is inside _save_to_disk
update_voice_unlocked(v, patch) ==
  /\ s_pc \notin {"down"}
  /\ s_n < MaxMutations
  /\ s_n' = s_n + 1
  /\ IF v \notin DOMAIN voices
     THEN /\ ret' = Return("update_voice", v, NoneReturned)
          /\ UNCHANGED <<voices, s_pc, s_call>>
     ELSE /\ voices' = [voices EXCEPT ![v] = apply_update(voices[v], patch)]
          /\ IF s_pc = "idle"
             THEN begin_save("update_voice", v, patch, NULL)
             ELSE UNCHANGED <<s_pc, s_call>>
          /\ UNCHANGED ret
  /\ UNCHANGED <<t_vars, e_vars, now, a_vars, b_vars, model_loaded, files, spk2info, initialized, db_file,
                 c_vars, tmp_file>>

\* VoiceCache.update_voice, up to _save_to_disk
update_voice(v, patch) ==
  /\ s_pc = "idle"
  /\ s_n < MaxMutations
  /\ s_n' = s_n + 1
  /\ IF v \notin DOMAIN voices
     THEN /\ ret' = Return("update_voice", v, NoneReturned)
          /\ UNCHANGED <<voices, s_pc, s_call>>
     ELSE /\ voices' = [voices EXCEPT ![v] = apply_update(voices[v], patch)]
          /\ begin_save("update_voice", v, patch, NULL)
          /\ UNCHANGED ret
  /\ UNCHANGED <<t_vars, e_vars, now, a_vars, b_vars, model_loaded, files, spk2info, initialized, db_file,
                 c_vars, tmp_file>>

\* VoiceManager.delete_voice with VoiceCache.delete_voice, up to _save_to_disk
s_delete_voice(v) ==
  /\ s_pc = "idle"
  /\ s_n < MaxMutations
  /\ s_n' = s_n + 1
  /\ spk2info' = spk2info \ {v}
  /\ IF v \notin DOMAIN voices
     THEN /\ ret' = Return("delete_voice", v, FALSE)
          /\ UNCHANGED <<voices, files, s_pc, s_call>>
     ELSE /\ files' = Without(files, voices[v].audio_file_path)
          /\ voices' = Without(voices, v)
          /\ begin_save("delete_voice", v, EmptyPatch, NULL)
          /\ UNCHANGED ret
  /\ UNCHANGED <<t_vars, e_vars, now, a_vars, b_vars, model_loaded, initialized, db_file, c_vars, tmp_file>>

\* VoiceManager.delete_voice with VoiceCache.delete_voice up to os.remove: the
\* speaker is taken from spk2info, the record looked up under the cache lock,
\* its audio file removed (a failure of os.remove is printed and passed over)
s_delete_begin(v, remove_ok) ==
  /\ s_pc = "idle"
  /\ s_n < MaxMutations
  /\ s_n' = s_n + 1
  /\ spk2info' = spk2info \ {v}
  /\ IF v \notin DOMAIN voices
     THEN /\ ret' = Return("delete_voice", v, FALSE)
          /\ UNCHANGED <<files, s_pc, s_call>>
     ELSE /\ files' = IF remove_ok THEN Without(files, voices[v].audio_file_path) ELSE files
          /\ s_pc' = "removing"
          /\ s_call' = [op |-> "delete_voice", arg |-> v, patch |-> EmptyPatch, model_data |-> NULL]
          /\ UNCHANGED ret
  /\ UNCHANGED <<t_vars, e_vars, now, a_vars, b_vars, model_loaded, voices, initialized, db_file,
                 c_vars, tmp_file>>

\* VoiceCache.delete_voice after os.remove: del self.voices[voice_id], up to
\* _save_to_disk
s_delete_record ==
  /\ s_pc = "removing"
  /\ voices' = Without(voices, s_call.arg)
  /\ s_pc' = "opening"
  /\ UNCHANGED <<t_vars, e_vars, now, ret, a_vars, b_vars, model_loaded, files, spk2info,
                 initialized, db_file, c_vars, tmp_file, s_call, s_n>>

\* _save_to_disk with an except branch that prints and does not re-raise: the
\* mutating call returns as after a save
save_failed_swallowed ==
  /\ ret' = Return(s_call.op, s_call.arg,
                   IF s_call.op = "delete_voice" THEN TRUE ELSE VoiceReturned)
  /\ s_pc' = "idle"
  /\ s_call' = NoMutation

\* _save_to_disk raises: the mutating call ends with the exception, the
\* mutation stays in memory
save_failed ==
  /\ ret' = Raise(s_call.op, s_call.arg, "Exception", MsgSaveFailed)
  /\ s_pc' = "idle"
  /\ s_call' = NoMutation

\* _save_to_disk: open(temp_file, 'w')
save_open(ok) ==
  /\ s_pc = "opening"
  /\ IF ok
     THEN /\ tmp_file' = EmptyFile
          /\ s_pc' = "writing"
          /\ UNCHANGED <<ret, s_call>>
     ELSE /\ save_failed
          /\ UNCHANGED tmp_file
  /\ UNCHANGED <<t_vars, e_vars, now, a_vars, b_vars, model_loaded, voices, files, spk2info, initialized,
                 db_file, c_vars, s_n>>

\* json.dump writing into the cache file itself as it goes
save_write_in_place(ok) ==
  /\ s_pc = "writing"
  /\ IF ~ok
     THEN /\ save_failed
          /\ UNCHANGED <<tmp_file, db_file>>
     ELSE IF Len(tmp_file.entries) < Len(Entries(voices))
     THEN /\ tmp_file' = [tmp_file EXCEPT !.entries =
                            Append(tmp_file.entries, Entries(voices)[Len(tmp_file.entries) + 1])]
          /\ db_file' = tmp_file'
          /\ UNCHANGED <<ret, s_pc, s_call>>
     ELSE /\ tmp_file' = [tmp_file EXCEPT !.closed = TRUE]
          /\ db_file' = tmp_file'
          /\ s_pc' = "written"
          /\ UNCHANGED <<ret, s_call>>
  /\ UNCHANGED <<t_vars, e_vars, now, a_vars, b_vars, model_loaded, voices, files, spk2info, initialized,
                 c_vars, s_n>>

\* _save_to_disk: json.dump(data, f) writes the next entry, or the closing
\* brace after the last one (the file is closed with it); a write may fail
\* (disk full, a value json cannot encode)
save_write(ok) ==
  /\ s_pc = "writing"
  /\ IF ~ok
     THEN /\ save_failed
          /\ UNCHANGED tmp_file
     ELSE IF Len(tmp_file.entries) < Len(Entries(voices))
     THEN /\ tmp_file' = [tmp_file EXCEPT !.entries =
                            Append(tmp_file.entries, Entries(voices)[Len(tmp_file.entries) + 1])]
          /\ UNCHANGED <<ret, s_pc, s_call>>
     ELSE /\ tmp_file' = [tmp_file EXCEPT !.closed = TRUE]
          /\ s_pc' = "written"
          /\ UNCHANGED <<ret, s_call>>
  /\ UNCHANGED <<t_vars, e_vars, now, a_vars, b_vars, model_loaded, voices, files, spk2info, initialized,
                 db_file, c_vars, s_n>>

\* _save_to_disk: temp_file.replace(self.db_file), then the rest of the
\* mutating call: add_voice registers the speaker (voice_manager.py 206-213)
save_replace(ok) ==
  /\ s_pc = "written"
  /\ IF ~ok
     THEN /\ save_failed
          /\ UNCHANGED <<tmp_file, db_file, spk2info>>
     ELSE /\ db_file' = tmp_file
          /\ tmp_file' = NoFile
          /\ s_pc' = "idle"
          /\ s_call' = NoMutation
          /\ spk2info' = IF s_call.op = "add_voice" /\ s_call.model_data # NULL /\ model_loaded
                         THEN spk2info \cup {s_call.arg} ELSE spk2info
          /\ ret' = Return(s_call.op, s_call.arg,
                           IF s_call.op = "delete_voice" THEN TRUE ELSE VoiceReturned)
  /\ UNCHANGED <<t_vars, e_vars, now, a_vars, b_vars, model_loaded, voices, files, initialized, c_vars, s_n>>

\* the server process dies: everything it held in memory is gone, the files
\* stay as they are
crash ==
  /\ s_pc # "down"
  /\ s_pc' = "down"
  /\ s_call' = NoMutation
  /\ voices' = [v \in {} |-> NULL]
  /\ spk2info' = {}
  /\ model_loaded' = FALSE
  /\ initialized' = FALSE
  /\ UNCHANGED <<t_vars, e_vars, now, ret, a_vars, b_vars, files, db_file, tmp_file, c_vars, s_n>>

\* the speakers _load_cached_voices registers for the map vs
cached_speakers(vs) ==
  {v \in DOMAIN vs : /\ vs[v].voice_type \in ClonedTypes
                     /\ vs[v].model_data # NULL
                     /\ vs[v].audio_file_path # NoPath}

\* VoiceManager.initialize at the next start: the cache file is read, the
\* model loaded, the cached voices registered
initialize ==
  /\ s_pc = "down"
  /\ voices' = Load(db_file)
  /\ model_loaded' = TRUE
  /\ spk2info' = cached_speakers(voices')
  /\ initialized' = TRUE
  /\ s_pc' = "idle"
  /\ UNCHANGED <<t_vars, e_vars, now, ret, a_vars, b_vars, files, db_file, tmp_file, s_call, c_vars, s_n>>

\* ------------------------------------------------------------------------
\* Manager B: app/core/async_synthesis_manager.py
\* ------------------------------------------------------------------------
FREE == "free"

\* an executor future: not awaited, the worker's local value while it runs,
\* resolved with a value, resolved with an exception (its str)
NoFuture == [kind |-> "none", val |-> NoValue]
Pending(x) == [kind |-> "pending", val |-> x]
Returned(x) == [kind |-> "returned", val |-> x]
Raised(msg) == [kind |-> "raised", val |-> msg]

CallbackUrls == {NULL, "http://callback"}

\* CrossLingualAsyncRequest, the fields the manager reads
Requests == [voice_id : VoiceIds, callback_url : CallbackUrls]

\* AsyncTask.__init__
AsyncTask(request) ==
  [request |-> request, status |-> PENDING, progress |-> 0,
   message |-> "Task created", audio_url |-> NoPath, file_path |-> NoPath,
   duration |-> NoValue, error_message |-> NoMsg,
   created_at |-> now, completed_at |-> NoTime]

\* AsyncTaskStatusResponse built by get_task_status and list_tasks
StatusResponse(task) ==
  [status |-> task.status, progress |-> task.progress, message |-> task.message,
   audio_url |-> task.audio_url, error_message |-> task.error_message,
   completed_at |-> task.completed_at]

b_FreshIds == {t \in TaskIds : b_pc[t] = "none" /\ \A u \in TaskIds : u < t => b_pc[u] # "none"}

\* create_task running the first segment of the execution inline
create_task_eager(t, request) ==
  /\ t \in b_FreshIds
  /\ b_lock = FREE
  /\ b_tasks' = [u \in DOMAIN b_tasks \cup {t} |->
                   IF u = t THEN [AsyncTask(request) EXCEPT !.status = PROCESSING,
                                                            !.progress = 3]
                   ELSE b_tasks[u]]
  /\ b_pc' = [b_pc EXCEPT ![t] = "th_lookup"]
  /\ b_req' = [b_req EXCEPT ![t] = request]
  /\ running_tasks' = running_tasks \cup {t}
  /\ b_lock' = FREE
  /\ ret' = Return("create_task", t, PENDING)
  /\ UNCHANGED <<t_vars, e_vars, now, a_vars, b_fut, running, v_vars>>

\* create_task: insert under the lock, asyncio.create_task, return the response
create_task(t, request) ==
  /\ t \in b_FreshIds
  /\ b_lock = FREE
  /\ b_tasks' = [u \in DOMAIN b_tasks \cup {t} |->
                   IF u = t THEN AsyncTask(request) ELSE b_tasks[u]]
  /\ b_pc' = [b_pc EXCEPT ![t] = "scheduled"]
  /\ b_req' = [b_req EXCEPT ![t] = request]
  /\ b_lock' = FREE
  /\ ret' = Return("create_task", t, PENDING)
  /\ UNCHANGED <<t_vars, e_vars, now, a_vars, b_fut, running_tasks, running, v_vars>>

\* what get_task_status(task_id) answers in the current state
TaskStatusResponse(t) ==
  IF t \in DOMAIN b_tasks THEN StatusResponse(b_tasks[t])
  ELSE [status |-> "not_found", progress |-> 0, message |-> "Task not found",
        audio_url |-> NoPath, error_message |-> NoMsg, completed_at |-> NoTime]

\* get_task_status: the record is read under the lock, the response built from
\* it; the manager's state is left as it is
b_get_task_status(t) ==
  /\ b_lock = FREE
  /\ b_lock' = FREE
  /\ UNCHANGED <<t_vars, e_vars, now, ret, a_vars, b_tasks, b_pc, b_req, b_fut, running_tasks, running, v_vars>>

\* what list_tasks() answers in the current state: a dict with one response per
\* record, in the order of self.tasks (a dict keeps insertion order, and ids
\* are inserted in increasing order); here the task_ids in that order
b_list_tasks_result ==
  CHOOSE r \in [1..Cardinality(DOMAIN b_tasks) -> DOMAIN b_tasks] :
    \A i, j \in DOMAIN r : i < j => r[i] < r[j]

\* list_tasks: one response per record, built under the lock
b_list_tasks ==
  /\ b_lock = FREE
  /\ b_lock' = FREE
  /\ UNCHANGED <<t_vars, e_vars, now, ret, a_vars, b_tasks, b_pc, b_req, b_fut, running_tasks, running, v_vars>>

\* stop(): every running task that is PROCESSING is marked FAILED
stop ==
  /\ b_lock = FREE
  /\ running' = FALSE
  /\ b_tasks' = [u \in DOMAIN b_tasks |->
                   IF u \in running_tasks /\ b_tasks[u].status = PROCESSING
                   THEN [b_tasks[u] EXCEPT !.status = FAILED,
                                           !.error_message = <<"Server shutdown">>]
                   ELSE b_tasks[u]]
  /\ b_lock' = FREE
  /\ UNCHANGED <<t_vars, e_vars, now, ret, a_vars, b_pc, b_req, b_fut, running_tasks, v_vars>>

\* a sweep that tests the age alone, not the status
cleanup_tasks_any_status(max_age) ==
  /\ b_lock = FREE
  /\ b_tasks' = [u \in {v \in DOMAIN b_tasks : ~(now - b_tasks[v].created_at > max_age)}
                   |-> b_tasks[u]]
  /\ b_lock' = FREE
  /\ UNCHANGED <<t_vars, e_vars, now, ret, a_vars, b_pc, b_req, b_fut, running_tasks, running, v_vars>>

\* cleanup_completed_tasks(max_age_hours)
cleanup_completed_tasks(max_age) ==
  /\ b_lock = FREE
  /\ b_tasks' = [u \in {v \in DOMAIN b_tasks :
                          ~(b_tasks[v].status \in {COMPLETED, FAILED}
                            /\ now - b_tasks[v].created_at > max_age)}
                   |-> b_tasks[u]]
  /\ b_lock' = FREE
  /\ UNCHANGED <<t_vars, e_vars, now, ret, a_vars, b_pc, b_req, b_fut, running_tasks, running, v_vars>>

\* the except branch of _process_task_async followed by its finally block:
\* FAILED, progress 0.0, error_message = str(e); the task object is the one
\* the coroutine holds, in the map or not
b_failed(tasks, t, msg) ==
  IF t \in DOMAIN tasks
  THEN [tasks EXCEPT ![t].status = FAILED,
                     ![t].progress = 0,
                     ![t].message = "Synthesis failed",
                     ![t].error_message = msg,
                     ![t].completed_at = now]
  ELSE tasks

\* _process_task_async, first segment, up to the executor future of
\* _synthesize_cross_lingual_cached; lock_after is the lock's holder when the
\* segment suspends
b_process_start_holding(t, lock_after) ==
  /\ b_pc[t] = "scheduled"
  /\ b_lock = FREE
  /\ IF t \notin DOMAIN b_tasks
     THEN \* if not task: return
          /\ b_pc' = [b_pc EXCEPT ![t] = "done"]
          /\ b_lock' = FREE
          /\ UNCHANGED <<b_tasks, running_tasks>>
     ELSE LET v == b_req[t].voice_id
              \* PROCESSING, 0.1, then 0.3 under the lock taken again
              started == [b_tasks EXCEPT ![t].status = PROCESSING,
                                         ![t].progress = 3,
                                         ![t].message = "Synthesizing audio..."]
          IN  IF ~model_loaded
              THEN /\ b_tasks' = b_failed(started, t, SynthesisError(MsgModelNotReady))
                   /\ b_pc' = [b_pc EXCEPT ![t] = "done"]
                   /\ b_lock' = FREE
                   /\ UNCHANGED running_tasks
              ELSE IF v \notin DOMAIN voices
              THEN /\ b_tasks' = b_failed(started, t, SynthesisError(MsgVoiceNotFound(v)))
                   /\ b_pc' = [b_pc EXCEPT ![t] = "done"]
                   /\ b_lock' = FREE
                   /\ UNCHANGED running_tasks
              ELSE /\ b_tasks' = started
                   /\ running_tasks' = running_tasks \cup {t}
                   /\ b_pc' = [b_pc EXCEPT ![t] = "th_lookup"]
                   /\ b_lock' = lock_after
  /\ UNCHANGED <<t_vars, e_vars, now, ret, a_vars, b_req, b_fut, running, v_vars>>

\* the first segment with the engine call made inside the lock block
b_process_start_locked(t) == b_process_start_holding(t, "execution")

\* _process_task_async, first segment
b_process_start(t) == b_process_start_holding(t, FREE)

\* worker thread, _sync_synthesis: voice = voice_cache.voices.get(voice_id)
b_thread_lookup(t) ==
  /\ b_pc[t] = "th_lookup"
  /\ LET v == b_req[t].voice_id
     IN  IF v \in DOMAIN voices /\ voices[v].audio_file_path # NoPath
         THEN /\ b_pc' = [b_pc EXCEPT ![t] = "th_infer"]
              /\ b_fut' = [b_fut EXCEPT ![t] = Pending(voices[v].audio_file_path)]
         ELSE /\ b_pc' = [b_pc EXCEPT ![t] = "synth_done"]
              /\ b_fut' = [b_fut EXCEPT ![t] = Raised(SynthesisError(MsgVoiceNotFound(v)))]
  /\ UNCHANGED <<t_vars, e_vars, now, ret, a_vars, b_tasks, b_req, b_lock, running_tasks, running, v_vars>>

\* what the model does with the prompt: audio, no chunk at all, or an exception
InferenceOutcomes == {"audio", "no chunks", "raises"}

\* a worker that saves whatever was collected, an empty buffer included
b_thread_infer_saves_empty(t, outcome) ==
  /\ b_pc[t] = "th_infer"
  /\ b_pc' = [b_pc EXCEPT ![t] = "synth_done"]
  /\ IF b_fut[t].val \notin DOMAIN files
     THEN /\ b_fut' = [b_fut EXCEPT ![t] = Raised(SynthesisError(MsgLoadWav))]
          /\ UNCHANGED files
     ELSE IF outcome \in {"audio", "no chunks"}
     THEN /\ b_fut' = [b_fut EXCEPT ![t] =
                         IF outcome = "audio" THEN Returned(<<"synthesis_time">>)
                         ELSE Raised(SynthesisError(MsgNoAudio))]
          /\ files' = [p \in DOMAIN files \cup {get_output_audio_path(t)} |->
                         IF p = get_output_audio_path(t) THEN <<"audio", t>> ELSE files[p]]
     ELSE /\ b_fut' = [b_fut EXCEPT ![t] = Raised(SynthesisError(MsgInference))]
          /\ UNCHANGED files
  /\ UNCHANGED <<t_vars, e_vars, now, ret, a_vars, b_tasks, b_req, b_lock, running_tasks, running,
                 model_loaded, voices, spk2info, initialized, db_file, c_vars, s_vars>>

\* worker thread, _sync_synthesis: load_wav of the path read, inference,
\* torchaudio.save(output_path)
b_thread_infer(t, outcome) ==
  /\ b_pc[t] = "th_infer"
  /\ b_pc' = [b_pc EXCEPT ![t] = "synth_done"]
  /\ IF b_fut[t].val \notin DOMAIN files
     THEN /\ b_fut' = [b_fut EXCEPT ![t] = Raised(SynthesisError(MsgLoadWav))]
          /\ UNCHANGED files
     ELSE IF outcome = "audio"
     THEN /\ b_fut' = [b_fut EXCEPT ![t] = Returned(<<"synthesis_time">>)]
          /\ files' = [p \in DOMAIN files \cup {get_output_audio_path(t)} |->
                         IF p = get_output_audio_path(t) THEN <<"audio", t>> ELSE files[p]]
     ELSE /\ b_fut' = [b_fut EXCEPT ![t] =
                         Raised(SynthesisError(IF outcome = "no chunks" THEN MsgNoAudio
                                               ELSE MsgInference))]
          /\ UNCHANGED files
  /\ UNCHANGED <<t_vars, e_vars, now, ret, a_vars, b_tasks, b_req, b_lock, running_tasks, running,
                 model_loaded, voices, spk2info, initialized, db_file, c_vars, s_vars>>

\* _process_task_async resumed after the synthesis future, with an except
\* branch that only logs
b_after_synth_swallow(t) ==
  /\ b_pc[t] = "synth_done"
  /\ b_lock = FREE
  /\ IF b_fut[t].kind = "returned"
     THEN /\ b_pc' = [b_pc EXCEPT ![t] = "th_duration"]
          /\ UNCHANGED <<b_tasks, running_tasks, b_fut>>
     ELSE /\ running_tasks' = running_tasks \ {t}
          /\ b_pc' = [b_pc EXCEPT ![t] = "done"]
          /\ b_fut' = [b_fut EXCEPT ![t] = NoFuture]
          /\ UNCHANGED b_tasks
  /\ b_lock' = FREE
  /\ UNCHANGED <<t_vars, e_vars, now, ret, a_vars, b_req, running, v_vars>>

\* _process_task_async resumed after the synthesis future: on an exception the
\* except and finally blocks; otherwise _get_audio_duration is awaited
b_after_synth(t) ==
  /\ b_pc[t] = "synth_done"
  /\ b_lock = FREE
  /\ IF b_fut[t].kind = "returned"
     THEN /\ b_pc' = [b_pc EXCEPT ![t] = "th_duration"]
          /\ UNCHANGED <<b_tasks, running_tasks, b_fut>>
     ELSE /\ b_tasks' = b_failed(b_tasks, t, b_fut[t].val)
          /\ running_tasks' = running_tasks \ {t}
          /\ b_pc' = [b_pc EXCEPT ![t] = "done"]
          /\ b_fut' = [b_fut EXCEPT ![t] = NoFuture]
  /\ b_lock' = FREE
  /\ UNCHANGED <<t_vars, e_vars, now, ret, a_vars, b_req, running, v_vars>>

\* worker thread, _get_audio_info_sync(output_path); _get_audio_duration
\* turns any failure into None
b_thread_duration(t) ==
  /\ b_pc[t] = "th_duration"
  /\ b_pc' = [b_pc EXCEPT ![t] = "duration_done"]
  /\ b_fut' = [b_fut EXCEPT ![t] =
                 Returned(IF get_output_audio_path(t) \in DOMAIN files
                          THEN <<"duration">> ELSE NoValue)]
  /\ UNCHANGED <<t_vars, e_vars, now, ret, a_vars, b_tasks, b_req, b_lock, running_tasks, running, v_vars>>

\* _process_task_async resumed with the SynthesisResponse: COMPLETED, 1.0,
\* the result fields; then the callback is awaited, or the finally block runs
b_complete(t) ==
  /\ b_pc[t] = "duration_done"
  /\ b_lock = FREE
  /\ b_tasks' = IF t \in DOMAIN b_tasks
                THEN [b_tasks EXCEPT ![t].status = COMPLETED,
                                     ![t].progress = 10,
                                     ![t].message = "Synthesis completed successfully",
                                     ![t].audio_url = <<"/api/v1/audio", "cross_lingual_cache", t>>,
                                     ![t].file_path = get_output_audio_path(t),
                                     ![t].duration = b_fut[t].val,
                                     ![t].completed_at = now]
                ELSE b_tasks
  /\ b_fut' = [b_fut EXCEPT ![t] = NoFuture]
  /\ IF b_req[t].callback_url # NULL
     THEN /\ b_pc' = [b_pc EXCEPT ![t] = "callback"]
          /\ UNCHANGED running_tasks
     ELSE /\ b_pc' = [b_pc EXCEPT ![t] = "done"]
          /\ running_tasks' = running_tasks \ {t}
  /\ b_lock' = FREE
  /\ UNCHANGED <<t_vars, e_vars, now, ret, a_vars, b_req, running, v_vars>>

\* what session.post(callback_url, json=..., timeout=10) comes to: a
\* response with a success or an error status, an exception of aiohttp, the
\* timeout
CallbackOutcomes == {"2xx", "5xx", "ClientError", "TimeoutError"}

\* a callback whose exceptions reach the except branch of
\* _process_task_async
b_call_callback_propagates(t, outcome) ==
  /\ b_pc[t] = "callback"
  /\ b_lock = FREE
  /\ b_pc' = [b_pc EXCEPT ![t] = "done"]
  /\ running_tasks' = running_tasks \ {t}
  /\ b_tasks' = IF outcome \in {"ClientError", "TimeoutError"}
                THEN b_failed(b_tasks, t, <<outcome>>)
                ELSE b_tasks
  /\ b_lock' = FREE
  /\ UNCHANGED <<t_vars, e_vars, now, ret, a_vars, b_req, b_fut, running, v_vars>>

\* _call_callback_async ends: the status of a response is logged, an exception
\* is caught by its "except Exception" and logged; then the finally block of
\* _process_task_async
b_call_callback(t, outcome) ==
  /\ b_pc[t] = "callback"
  /\ b_lock = FREE
  /\ b_pc' = [b_pc EXCEPT ![t] = "done"]
  /\ running_tasks' = running_tasks \ {t}
  /\ b_lock' = FREE
  /\ UNCHANGED <<t_vars, e_vars, now, ret, a_vars, b_tasks, b_req, b_fut, running, v_vars>>

\* _call_callback_async came back (whatever the outcome, it is logged), then
\* the finally block
b_callback_done(t) == \E outcome \in CallbackOutcomes : b_call_callback(t, outcome)

\* ------------------------------------------------------------------------
\* Endpoints: app/api/v1/synthesis.py, app/api/v1/async_synthesis.py
\* ------------------------------------------------------------------------

\* raise HTTPException(status_code=status)
HTTPException(status) == Exc("HTTPException", <<status>>)

\* return FileResponse(path=file_path, ...)
FileResponse == Exc("FileResponse", <<200>>)

\* GET /audio/{filename}, the try block; the file asked for is the output of
\* task t (or of a task that never was, for the unknown id)
get_audio_file_body(t) ==
  IF get_output_audio_path(t) \notin DOMAIN files
  THEN HTTPException(404)
  ELSE FileResponse

\* the status of the answer: whatever the try block raises, the 404 included,
\* is caught by "except Exception" and replaced by HTTPException(500)
get_audio_file_status(t) ==
  IF get_audio_file_body(t).kind = "FileResponse" THEN 200 ELSE 500

\* GET /audio/{filename}: a read of the output directory
get_audio_file(t) ==
  /\ UNCHANGED <<t_vars, e_vars, now, ret, a_vars, b_vars, v_vars>>

\* DELETE /tasks/{task_id}: the status answered for what the manager's
\* cancel_task returned (HTTPException(400) is re-raised as it is)
cancel_task_status(success) == IF success THEN 200 ELSE 400

\* ------------------------------------------------------------------------
\* Synthesis engine: app/core/synthesis_engine.py, the worker-thread function
\* _sync_synthesis of each call shape, from the choice of the model's entry
\* point to torchaudio.save
\* ------------------------------------------------------------------------

\* max_chunks = 100 if is_japanese else 200
MaxChunks == 200
MaxChunksJapanese == 100
\* outputs of the model a run follows at most
StreamCap == 201

\* the call shapes: _synthesize_with_zero_shot, _synthesize_with_instruct,
\* _synthesize_cross_lingual_cached
Shapes == {"zero_shot", "instruct", "cross_lingual_cached"}

\* model.sample_rate
SampleRates == {24000}
\* len(text)
TextLens == {1, 1000}
\* speed, in tenths (the request models allow 0.5 to 2.0)
Speeds == {5, 10, 20}
\* request.prompt_text
PromptTexts == {"", "prompt"}

\* what the model's generator yields: the sample counts of its outputs, one
\* round of them, gone through once or again and again without end
Rounds == {<<>>, <<0>>, <<9000>>, <<10000, 0>>, <<18001>>}

EngineCalls ==
  [shape : Shapes, sample_rate : SampleRates, text_len : TextLens, is_japanese : BOOLEAN,
   speed : Speeds, prompt_text : PromptTexts, has_cross_lingual : BOOLEAN,
   round : Rounds, endless : BOOLEAN]

NoEngineCall ==
  [shape |-> "none", sample_rate |-> 0, text_len |-> 0, is_japanese |-> FALSE,
   speed |-> 10, prompt_text |-> "", has_cross_lingual |-> FALSE,
   round |-> <<>>, endless |-> FALSE]

NoEntry == [name |-> "none", prompt_text |-> ""]

\* the i-th output of the generator of call c: model_output['tts_speech'],
\* flattened
Chunk(c, i) == [n |-> i, samples |-> c.round[((i - 1) % Len(c.round)) + 1]]

\* the generator has an output after its first i
HasNext(c, i) == Len(c.round) > 0 /\ (c.endless \/ i < Len(c.round))

\* len(all_audio_data)
RECURSIVE SampleCount(_)
SampleCount(data) ==
  IF data = <<>> THEN 0 ELSE data[Len(data)].samples + SampleCount(SubSeq(data, 1, Len(data) - 1))

\* max_chunks
max_chunks(c) == IF c.is_japanese THEN MaxChunksJapanese ELSE MaxChunks

\* max_samples = int(model.sample_rate * (len(text) * 0.15 / speed) * 5);
\* with the speed in tenths that is sample_rate * len * (15 * 5 * 10) over
\* (100 * speed), the fraction reduced by 50
max_samples(c) == (c.sample_rate * c.text_len * 15) \div (2 * c.speed)

\* a loop that stops on the chunk count alone
limit_reached_by_count(c, count, samples) ==
  /\ c.shape = "cross_lingual_cached"
  /\ count >= max_chunks(c)

\* the two break tests after a chunk was added; only the loop of
\* _synthesize_cross_lingual_cached has them
limit_reached(c, count, samples) ==
  /\ c.shape = "cross_lingual_cached"
  /\ \/ count >= max_chunks(c)
     \/ samples > max_samples(c)

\* the model's entry point a call shape invokes, with the prompt text it passes
entry_point(c) ==
  IF c.shape = "zero_shot"
  THEN [name |-> "inference_zero_shot", prompt_text |-> c.prompt_text]
  ELSE IF c.has_cross_lingual
  THEN [name |-> "inference_cross_lingual", prompt_text |-> ""]
  ELSE [name |-> "inference_zero_shot", prompt_text |-> ""]

\* the output file of the call
e_output_path == <<"outputs", "cross_lingual", 0>>

\* _sync_synthesis up to the loop: the generator is made by the entry point
e_synthesize(c) ==
  /\ e_pc = "idle"
  /\ e_call' = c
  /\ e_entry' = entry_point(c)
  /\ chunk_count' = 0
  /\ all_audio_data' = <<>>
  /\ e_pc' = "consuming"
  /\ UNCHANGED <<t_vars, now, ret, a_vars, b_vars, v_vars>>

\* the end of _sync_synthesis: SynthesisError when nothing was collected,
\* otherwise the collected audio is saved at the output path
e_finish(data) ==
  /\ e_pc' = "done"
  /\ IF SampleCount(data) = 0
     THEN /\ ret' = Raise("synthesize", e_call.shape, "SynthesisError", MsgNoAudio)
          /\ UNCHANGED files
     ELSE /\ ret' = Return("synthesize", e_call.shape, Exc("float", <<"synthesis_time">>))
          /\ files' = With(files, e_output_path, data)

\* one iteration of "for model_output in synthesis_generator": the chunk is
\* added, then the limits are tested; a break goes on to the end of the call
e_next_chunk ==
  /\ e_pc = "consuming"
  /\ HasNext(e_call, chunk_count)
  /\ chunk_count < StreamCap
  /\ all_audio_data' = Append(all_audio_data, Chunk(e_call, chunk_count + 1))
  /\ chunk_count' = chunk_count + 1
  /\ IF limit_reached(e_call, chunk_count', SampleCount(all_audio_data'))
     THEN e_finish(all_audio_data')
     ELSE UNCHANGED <<e_pc, ret, files>>
  /\ UNCHANGED <<t_vars, now, a_vars, b_vars, model_loaded, voices, spk2info, initialized, db_file,
                 c_vars, s_vars, e_call, e_entry>>

\* the generator is exhausted: the loop ends, then the end of the call
e_exhausted ==
  /\ e_pc = "consuming"
  /\ ~HasNext(e_call, chunk_count)
  /\ e_finish(all_audio_data)
  /\ UNCHANGED <<t_vars, now, a_vars, b_vars, model_loaded, voices, spk2info, initialized, db_file,
                 c_vars, s_vars, e_call, e_entry, chunk_count, all_audio_data>>

InitE ==
  /\ e_call = NoEngineCall
  /\ e_pc = "idle"
  /\ e_entry = NoEntry
  /\ chunk_count = 0
  /\ all_audio_data = <<>>

NextE ==
  \/ \E c \in EngineCalls : e_synthesize(c)
  \/ e_next_chunk
  \/ e_exhausted

\* ------------------------------------------------------------------------
\* Task endpoints: app/api/v1/tasks.py.  A coroutine's run between two
\* suspensions is cut at the entry of each "async with tasks_lock" block, so
\* that the lock's holder is part of the state; while a coroutine is inside
\* such a run no other coroutine moves (one event loop).
\* ------------------------------------------------------------------------

Texts == {"hello", "world"}

\* TaskRequest, the fields the endpoints read (format at its default)
TaskRequests == [text : Texts, voice_id : VoiceIds, format : {"wav"}]
NoRequest == [text |-> "", voice_id |-> NULL, format |-> "wav"]

\* a coroutine inside "async with tasks_lock": the function and its task_id
Holder(op, t) == [op |-> op, task_id |-> t]
NoHolder == Holder("none", UnknownId)

\* hashlib.md5(f"{text}_{voice_id}_{format}").hexdigest()[:8]: equal inputs
\* give the equal digest; the inputs of the model give different digests
content_hash(text, voice_id, format) == <<text, voice_id, format>>

\* generate_file_path: os.path.join("outputs", f"task_{content_hash}.{format}")
generate_file_path(text, voice_id, format) ==
  <<"outputs", "task", content_hash(text, voice_id, format)>>

\* the path pre-allocated for task t with this request
allocate_file_path(t, request) ==
  generate_file_path(request.text, request.voice_id, request.format)

\* task_data as create_synthesis_task registers it
task_data(t, request) ==
  [status |-> "registered", file_path |-> allocate_file_path(t, request), progress |-> 0,
   created_at |-> now, completed_at |-> NoTime, error_message |-> NoMsg]

\* the audio a synthesis for task t writes
Audio(t) == <<"audio", t>>

\* positions inside a run of process_task_background, the lock not held
MidSegment == {"started", "move", "moved", "except"}

\* the event loop is inside a run of some coroutine
Busy == tasks_lock # NoHolder \/ \E u \in TaskIds : t_pc[u] \in MidSegment

t_FreshIds == {t \in TaskIds : t_pc[t] = "none" /\ \A u \in TaskIds : u < t => t_pc[u] # "none"}

\* POST /cross-lingual/task up to "async with tasks_lock"
t_create_lock(t, request) ==
  /\ ~Busy
  /\ t \in t_FreshIds
  /\ tasks_lock' = Holder("create_synthesis_task", t)
  /\ t_req' = [t_req EXCEPT ![t] = request]
  /\ t_pc' = [t_pc EXCEPT ![t] = "creating"]
  /\ UNCHANGED <<e_vars, now, ret, a_vars, b_vars, v_vars, tasks_storage>>

\* the insert, then background_tasks.add_task and the response
t_create(t) ==
  /\ tasks_lock = Holder("create_synthesis_task", t)
  /\ tasks_storage' = With(tasks_storage, t, task_data(t, t_req[t]))
  /\ tasks_lock' = NoHolder
  /\ t_pc' = [t_pc EXCEPT ![t] = "scheduled"]
  /\ ret' = Return("create_synthesis_task", t, "registered")
  /\ UNCHANGED <<e_vars, now, a_vars, b_vars, v_vars, t_req>>

\* process_task_background enters a lock block
t_lock(t, to) ==
  /\ tasks_lock = NoHolder
  /\ tasks_lock' = Holder("process_task_background", t)
  /\ t_pc' = [t_pc EXCEPT ![t] = to]
  /\ UNCHANGED <<e_vars, now, ret, a_vars, b_vars, v_vars, tasks_storage, t_req>>

\* process_task_background is started by the event loop
t_start_lock(t) ==
  /\ ~Busy
  /\ t_pc[t] = "scheduled"
  /\ t_lock(t, "start_locked")

\* first lock block: return when the task is gone, else processing, 0.1
t_start(t) ==
  /\ t_pc[t] = "start_locked"
  /\ tasks_lock' = NoHolder
  /\ IF t \notin DOMAIN tasks_storage
     THEN /\ t_pc' = [t_pc EXCEPT ![t] = "done"]
          /\ UNCHANGED tasks_storage
     ELSE /\ tasks_storage' = [tasks_storage EXCEPT ![t].status = "processing",
                                                    ![t].progress = 1]
          /\ t_pc' = [t_pc EXCEPT ![t] = "started"]
  /\ UNCHANGED <<e_vars, now, ret, a_vars, b_vars, v_vars, t_req>>

t_progress_lock(t) ==
  /\ t_pc[t] = "started"
  /\ t_lock(t, "progress_locked")

\* second lock block: 0.3 if the task is there; then the engine is awaited
t_progress(t) ==
  /\ t_pc[t] = "progress_locked"
  /\ tasks_lock' = NoHolder
  /\ tasks_storage' = IF t \in DOMAIN tasks_storage
                      THEN [tasks_storage EXCEPT ![t].progress = 3]
                      ELSE tasks_storage
  /\ t_pc' = [t_pc EXCEPT ![t] = "synth"]
  /\ UNCHANGED <<e_vars, now, ret, a_vars, b_vars, v_vars, t_req>>

\* str(e) of what synthesize_cross_lingual_with_cache raises for the request
t_error(request) ==
  IF ~model_loaded THEN SynthesisError(MsgModelNotReady)
  ELSE IF request.voice_id \notin DOMAIN voices
  THEN SynthesisError(MsgVoiceNotFound(request.voice_id))
  ELSE SynthesisError(MsgInference)

\* synthesize_cross_lingual_with_cache returns its result, the audio written
\* at a fresh output path, or raises
t_synth_done(t, outcome) ==
  /\ ~Busy
  /\ t_pc[t] = "synth"
  /\ IF model_loaded /\ t_req[t].voice_id \in DOMAIN voices /\ outcome = "audio"
     THEN /\ files' = With(files, get_output_audio_path(t), Audio(t))
          /\ t_pc' = [t_pc EXCEPT ![t] = "move"]
     ELSE /\ t_pc' = [t_pc EXCEPT ![t] = "except"]
          /\ UNCHANGED files
  /\ UNCHANGED <<e_vars, now, ret, a_vars, b_vars, model_loaded, voices, spk2info, initialized,
                 db_file, c_vars, s_vars, tasks_storage, tasks_lock, t_req>>

\* "Move file to pre-allocated path": target_path is read from
\* tasks_storage[task_id] outside any lock block (KeyError when the task is
\* gone, caught by "except Exception"); a file at the target is removed, the
\* result renamed to it
t_move(t) ==
  /\ t_pc[t] = "move"
  /\ tasks_lock = NoHolder
  /\ IF t \notin DOMAIN tasks_storage
     THEN /\ t_pc' = [t_pc EXCEPT ![t] = "except"]
          /\ UNCHANGED files
     ELSE LET target_path == tasks_storage[t].file_path
              result == get_output_audio_path(t)
          IN  /\ files' = With(Without(Without(files, target_path), result),
                               target_path, files[result])
              /\ t_pc' = [t_pc EXCEPT ![t] = "moved"]
  /\ UNCHANGED <<e_vars, now, ret, a_vars, b_vars, model_loaded, voices, spk2info, initialized,
                 db_file, c_vars, s_vars, tasks_storage, tasks_lock, t_req>>

t_complete_lock(t) ==
  /\ t_pc[t] = "moved"
  /\ t_lock(t, "complete_locked")

\* "Update task completion", under the lock and only if the task is there
t_complete(t) ==
  /\ t_pc[t] = "complete_locked"
  /\ tasks_lock' = NoHolder
  /\ tasks_storage' = IF t \in DOMAIN tasks_storage
                      THEN [tasks_storage EXCEPT ![t].status = "completed",
                                                 ![t].progress = 10,
                                                 ![t].completed_at = now]
                      ELSE tasks_storage
  /\ t_pc' = [t_pc EXCEPT ![t] = "done"]
  /\ UNCHANGED <<e_vars, now, ret, a_vars, b_vars, v_vars, t_req>>

t_except_lock(t) ==
  /\ t_pc[t] = "except"
  /\ t_lock(t, "except_locked")

\* a failure branch that assigns tasks_storage[task_id] without testing that
\* the task is there
t_failed_reinserts(t) ==
  /\ t_pc[t] = "except_locked"
  /\ tasks_lock' = NoHolder
  /\ tasks_storage' = With(tasks_storage, t,
                           [task_data(t, t_req[t]) EXCEPT !.status = "failed",
                                                          !.error_message = t_error(t_req[t]),
                                                          !.completed_at = now])
  /\ t_pc' = [t_pc EXCEPT ![t] = "done"]
  /\ UNCHANGED <<e_vars, now, ret, a_vars, b_vars, v_vars, t_req>>

\* "Update task failure", under the lock and only if the task is there
t_failed(t) ==
  /\ t_pc[t] = "except_locked"
  /\ tasks_lock' = NoHolder
  /\ tasks_storage' = IF t \in DOMAIN tasks_storage
                      THEN [tasks_storage EXCEPT ![t].status = "failed",
                                                 ![t].progress = 0,
                                                 ![t].error_message = t_error(t_req[t]),
                                                 ![t].completed_at = now]
                      ELSE tasks_storage
  /\ t_pc' = [t_pc EXCEPT ![t] = "done"]
  /\ UNCHANGED <<e_vars, now, ret, a_vars, b_vars, v_vars, t_req>>

\* DELETE /cross-lingual/task/{task_id} up to "async with tasks_lock"
t_delete_lock(t) ==
  /\ ~Busy
  /\ tasks_lock' = Holder("delete_task", t)
  /\ UNCHANGED <<e_vars, now, ret, a_vars, b_vars, v_vars, tasks_storage, t_pc, t_req>>

MsgDeleted == "deleted successfully"
\* HTTPException(status_code=404, detail="Task not found")
MsgTaskNotFound == "Task not found"

\* delete_task inside the lock block: 404 for an unknown task, else the file
\* at the task's file_path is removed if it exists, then the record
t_delete(t) ==
  /\ tasks_lock = Holder("delete_task", t)
  /\ tasks_lock' = NoHolder
  /\ IF t \notin DOMAIN tasks_storage
     THEN /\ ret' = [Return("delete_task", t, MsgTaskNotFound) EXCEPT !.raised = TRUE]
          /\ UNCHANGED <<files, tasks_storage>>
     ELSE /\ files' = Without(files, tasks_storage[t].file_path)
          /\ tasks_storage' = Without(tasks_storage, t)
          /\ ret' = Return("delete_task", t, MsgDeleted)
  /\ UNCHANGED <<e_vars, now, a_vars, b_vars, model_loaded, voices, spk2info, initialized,
                 db_file, c_vars, s_vars, t_pc, t_req>>

InitT ==
  /\ tasks_storage = [t \in {} |-> NULL]
  /\ tasks_lock = NoHolder
  /\ t_pc = [t \in TaskIds |-> "none"]
  /\ t_req = [t \in TaskIds |-> NoRequest]

InitA ==
  /\ now = 0
  /\ ret = [op |-> "none", arg |-> UnknownId, val |-> NULL, raised |-> FALSE, seq |-> 0]
  /\ a_tasks = <<>>
  /\ a_pc = [t \in TaskIds |-> "none"]

\* main.py lifespan: the voice manager is initialized (model loaded, the
\* voice cache read from its file) before the manager is built and started
\* the bytes of the voices stored before startup
StoredUpload == <<"upload", 0>>

StoredVoice(v) ==
  [voice_id |-> v, name |-> "name", description |-> NULL,
   voice_type |-> "zero_shot", language |-> NULL,
   prompt_text |-> "hi", audio_format |-> "wav",
   created_at |-> 0, updated_at |-> 0,
   audio_file_path |-> get_voice_audio_path(v, "wav"), model_data |-> "embedding",
   file_size |-> StoredUpload]

InitB ==
  /\ b_tasks = <<>>
  /\ b_pc = [t \in TaskIds |-> "none"]
  /\ b_req = [t \in TaskIds |-> NULL]
  /\ b_fut = [t \in TaskIds |-> NoFuture]
  /\ b_lock = FREE
  /\ running_tasks = {}
  /\ running = TRUE

\* the voices found in the cache file at startup
StoredIds == {"v1"}

InitV ==
  /\ model_loaded = TRUE
  /\ voices = [v \in StoredIds |-> StoredVoice(v)]
  /\ files = [p \in {get_voice_audio_path(v, "wav") : v \in StoredIds} |-> StoredUpload]
  /\ spk2info = StoredIds
  /\ initialized = TRUE
  /\ db_file = Dump(voices)
  /\ v_pc = [c \in Callers |-> "idle"]
  /\ v_args = [c \in Callers |-> NoCall]
  /\ tmp_file = NoFile
  /\ s_pc = "idle"
  /\ s_call = NoMutation
  /\ s_n = 0

Init == InitA /\ InitB /\ InitV /\ InitE /\ InitT

SpecE == Init /\ [][NextE]_vars

NextT ==
  \/ Tick
  \/ \E t \in TaskIds, request \in TaskRequests : t_create_lock(t, request)
  \/ \E t \in TaskIds : t_create(t)
  \/ \E t \in TaskIds : t_start_lock(t)
  \/ \E t \in TaskIds : t_start(t)
  \/ \E t \in TaskIds : t_progress_lock(t)
  \/ \E t \in TaskIds : t_progress(t)
  \/ \E t \in TaskIds, outcome \in {"audio", "raises"} : t_synth_done(t, outcome)
  \/ \E t \in TaskIds : t_move(t)
  \/ \E t \in TaskIds : t_complete_lock(t)
  \/ \E t \in TaskIds : t_complete(t)
  \/ \E t \in TaskIds : t_except_lock(t)
  \/ \E t \in TaskIds : t_failed(t)
  \/ \E t \in TaskIds : t_delete_lock(t)
  \/ \E t \in TaskIds : t_delete(t)

SpecT == Init /\ [][NextT]_vars

\* the next step of the background job of task t
t_execute(t) ==
  \/ t_start_lock(t)
  \/ t_start(t)
  \/ t_progress_lock(t)
  \/ t_progress(t)
  \/ \E outcome \in {"audio", "raises"} : t_synth_done(t, outcome)
  \/ t_move(t)
  \/ t_complete_lock(t)
  \/ t_complete(t)
  \/ t_except_lock(t)
  \/ t_failed(t)

\* the event loop runs its ready coroutines in turn and asyncio.Lock wakes
\* its waiters in turn: a job that is ready again and again gets its step,
\* and an endpoint inside a lock block leaves it
SpecTFair ==
  /\ SpecT
  /\ \A t \in TaskIds : SF_vars(t_execute(t))
  /\ \A t \in TaskIds : WF_vars(t_create(t)) /\ WF_vars(t_delete(t))

NextA ==
  \/ Tick
  \/ \E t \in TaskIds : submit_sft_task(t)
  \/ \E t \in TaskIds \cup {UnknownId} : a_get_task_status(t)
  \/ \E t \in TaskIds \cup {UnknownId} : cancel_task(t)
  \/ \E t \in TaskIds : a_process_start(t)
  \/ \E t \in TaskIds : a_process_ok(t)
  \/ \E t \in TaskIds, e \in EngineErrors : a_process_fail(t, e)
  \/ a_cleanup_old_tasks

SpecA == Init /\ [][NextA]_vars

NextB ==
  \/ Tick
  \/ \E t \in TaskIds, r \in Requests : create_task(t, r)
  \/ \E t \in TaskIds \cup {UnknownId} : b_get_task_status(t)
  \/ b_list_tasks
  \/ stop
  \/ \E h \in 0..MaxTaskAge : cleanup_completed_tasks(h)
  \/ \E t \in TaskIds : b_process_start(t)
  \/ \E t \in TaskIds : b_thread_lookup(t)
  \/ \E t \in TaskIds, o \in InferenceOutcomes : b_thread_infer(t, o)
  \/ \E t \in TaskIds : b_after_synth(t)
  \/ \E t \in TaskIds : b_thread_duration(t)
  \/ \E t \in TaskIds : b_complete(t)
  \/ \E t \in TaskIds : b_callback_done(t)
  \/ \E v \in VoiceIds : delete_voice(v, TRUE)
  \/ \E t \in TaskIds \cup {UnknownId} : get_audio_file(t)

SpecB == Init /\ [][NextB]_vars

\* the event loop runs every ready coroutine and the executor runs every
\* submitted job: each started execution keeps taking its next step
b_execute(t) ==
  \/ b_process_start(t)
  \/ b_thread_lookup(t)
  \/ \E o \in InferenceOutcomes : b_thread_infer(t, o)
  \/ b_after_synth(t)
  \/ b_thread_duration(t)
  \/ b_complete(t)
  \/ b_callback_done(t)

\* (every step of an execution moves its position b_pc[t])
SpecBFair == SpecB /\ \A t \in TaskIds : WF_b_pc(b_execute(t))

\* ------------------------------------------------------------------------
\* Properties
\* ------------------------------------------------------------------------

\* C1: once a task's status is completed or failed, no later step changes it
\* (in particular not the background execution scheduled at submission).
C1_TerminalStatusIsFinal ==
  [][\A t \in DOMAIN a_tasks \cap DOMAIN a_tasks' :
       a_tasks[t].status \in Terminal => a_tasks'[t].status = a_tasks[t].status]_vars

\* C2: a completed task has a result and no error, a failed task has an error
\* and no result.
C2_ResultXorError ==
  \A t \in DOMAIN b_tasks :
    /\ b_tasks[t].status = COMPLETED =>
         b_tasks[t].audio_url # NoPath /\ b_tasks[t].error_message = NoMsg
    /\ b_tasks[t].status = FAILED =>
         b_tasks[t].error_message # NoMsg /\ b_tasks[t].audio_url = NoPath

\* C3: cancel_task answers true exactly when the task is in the map and
\* pending, and then the task is failed with "Task cancelled by user"; in every
\* other case (processing started, terminal, unknown id) it answers false and
\* no record changes.
C3_CancelOnlyPending ==
  [][(ret'.seq # ret.seq /\ ret'.op = "cancel_task") =>
       LET t == ret'.arg
       IN  IF t \in DOMAIN a_tasks /\ a_tasks[t].status = PENDING
           THEN /\ a_pc[t] = "scheduled"
                /\ ret'.val = TRUE
                /\ a_tasks' = [a_tasks EXCEPT ![t].status = FAILED,
                                              ![t].error = "Task cancelled by user",
                                              ![t].completed_at = now]
           ELSE /\ ret'.val = FALSE
                /\ a_tasks' = a_tasks]_vars

\* C3 witness: cancel_task was refused for a task that is processing, after
\* another task was cancelled while pending
C3_Witness ==
  /\ ret.op = "cancel_task" /\ ret.val = FALSE
  /\ ret.arg \in DOMAIN a_tasks
  /\ a_tasks[ret.arg].status = PROCESSING
  /\ \E u \in DOMAIN a_tasks :
       /\ a_tasks[u].status = FAILED
       /\ a_tasks[u].error = "Task cancelled by user"
       /\ a_pc[u] = "scheduled"

\* C4: the progress of a task that is not yet terminal never decreases from
\* one step to the next, the step into the terminal state included.
C4_ProgressMonotone ==
  [][\A t \in DOMAIN b_tasks \cap DOMAIN b_tasks' :
       b_tasks[t].status \notin Terminal =>
         b_tasks'[t].progress >= b_tasks[t].progress]_vars

\* the positions of an execution between its first and its last segment: the
\* synthesis call, the duration probe or the callback is in flight
InFlight == {"th_lookup", "th_infer", "synth_done", "th_duration", "duration_done", "callback"}

\* C5 witness: one task failed on a voice that has no record and the other
\* task completed with an audio_url
C5_Witness ==
  \E t, u \in DOMAIN b_tasks :
    /\ b_pc[t] = "done" /\ b_tasks[t].status = FAILED
    /\ b_tasks[t].request.voice_id \notin StoredIds
    /\ b_pc[u] = "done" /\ b_tasks[u].status = COMPLETED
    /\ b_tasks[u].audio_url # NoPath

\* C5: under fair scheduling every submitted task that is not removed ends
\* completed or failed with its execution finished; an execution whose
\* synthesis produced the audio ends completed with an audio_url; a step of
\* one task's execution leaves every other task's record as it was.
C5_EveryTaskTerminates ==
  /\ \A t \in TaskIds :
       (t \in DOMAIN b_tasks) ~>
         (t \notin DOMAIN b_tasks
          \/ (b_pc[t] = "done" /\ b_tasks[t].status \in Terminal))
  /\ [](\A t \in DOMAIN b_tasks :
          (b_pc[t] \in {"callback", "done"} /\ get_output_audio_path(t) \in DOMAIN files)
            => (b_tasks[t].status = COMPLETED /\ b_tasks[t].audio_url # NoPath))
  /\ [][\A t \in TaskIds :
          (b_pc[t] # "none" /\ b_pc'[t] # b_pc[t]) =>
            \A u \in DOMAIN b_tasks \ {t} :
              u \in DOMAIN b_tasks' /\ b_tasks'[u] = b_tasks[u]]_vars

\* C6: the step that inserts a task is the create_task call itself; it leaves
\* the task pending with progress 0 and its execution scheduled, not started.
C6_SubmitBeforeExecution ==
  [][\A t \in TaskIds :
       (t \notin DOMAIN b_tasks /\ t \in DOMAIN b_tasks') =>
         /\ ret'.op = "create_task" /\ ret'.arg = t /\ ret'.seq # ret.seq
         /\ b_tasks'[t].status = PENDING
         /\ b_tasks'[t].progress = 0
         /\ b_tasks'[t].request = b_req'[t]
         /\ b_pc[t] = "none" /\ b_pc'[t] = "scheduled"
         /\ b_fut'[t] = NoFuture
         /\ t \notin running_tasks']_vars

\* C6 witness: create_task has answered and the task's execution has not
\* taken a step yet, while an earlier task is being executed
C6_Witness ==
  /\ ret.op = "create_task"
  /\ ret.arg \in DOMAIN b_tasks
  /\ b_pc[ret.arg] = "scheduled"
  /\ b_tasks[ret.arg].status = PENDING
  /\ \E u \in DOMAIN b_tasks : b_pc[u] \in InFlight

\* C7: while a synthesis call, a duration probe or a callback is in flight
\* the task lock is free, so get_task_status and list_tasks can take it.
C7_LockFreeWhileInFlight ==
  (\E t \in TaskIds : b_pc[t] \in InFlight) =>
    /\ b_lock = FREE
    /\ ENABLED b_list_tasks
    /\ \A u \in TaskIds : ENABLED b_get_task_status(u)

\* C7 witness: one synthesis runs in a worker thread while another task's
\* callback is awaited
C7_Witness ==
  \E t, u \in TaskIds : b_pc[t] = "th_infer" /\ b_pc[u] = "callback"

\* the execution of task t is about to look up a voice that has no record
VoiceMissingAtExecution(t) ==
  /\ b_pc[t] = "scheduled"
  /\ t \in DOMAIN b_tasks
  /\ model_loaded
  /\ b_req[t].voice_id \notin DOMAIN voices

\* the record of t is failed with a "not found" error
FailedNotFound(t) ==
  /\ t \in DOMAIN b_tasks
  /\ b_tasks[t].status = FAILED
  /\ Contains(b_tasks[t].error_message, "not found")

\* C8: an execution that finds no record for its voice_id ends the task
\* failed with an error containing "not found", in the manager's record only
\* (no response, no callback, no other record changes); until its execution
\* starts a task shows pending, and a task that is not terminal shows pending
\* or processing with progress below 1.0.
C8_MissingVoiceFails ==
  /\ [][\A t \in TaskIds :
          (VoiceMissingAtExecution(t) /\ b_pc'[t] # b_pc[t]) =>
            /\ FailedNotFound(t)'
            /\ b_pc'[t] = "done"
            /\ ret' = ret
            /\ \A u \in DOMAIN b_tasks \ {t} :
                 u \in DOMAIN b_tasks' /\ b_tasks'[u] = b_tasks[u]]_vars
  /\ [][\A t \in DOMAIN b_tasks :
          (/\ b_pc[t] = "synth_done"
           /\ b_fut[t].kind = "raised"
           /\ b_fut[t].val = SynthesisError(MsgVoiceNotFound(b_req[t].voice_id))
           /\ b_pc'[t] # b_pc[t]) => FailedNotFound(t)']_vars
  /\ [](\A t \in DOMAIN b_tasks :
          /\ b_pc[t] = "scheduled" =>
               (b_tasks[t].status = PENDING /\ b_tasks[t].error_message = NoMsg)
          /\ b_tasks[t].status \notin Terminal =>
               (b_tasks[t].status \in {PENDING, PROCESSING} /\ b_tasks[t].progress < 10))

\* C8 witness: a task submitted for a voice that never had a record has
\* failed with "not found"
C8_Witness ==
  \E t \in TaskIds :
    /\ FailedNotFound(t)
    /\ b_pc[t] = "done"
    /\ b_tasks[t].request.voice_id \notin StoredIds

\* delete_voice(v) has just answered true and task t, submitted before it for
\* voice v, has not started
PendingOnDeletedVoice(t) ==
  /\ b_pc[t] = "scheduled"
  /\ t \in DOMAIN b_tasks
  /\ ret.op = "delete_voice" /\ ret.val = TRUE
  /\ ret.arg = b_req[t].voice_id

\* C9: when delete_voice(v) completes while a task for v is pending, the
\* task's execution ends it failed with a voice-not-found error, the
\* execution has returned (it is no longer in running_tasks) and the
\* registry's lock is free for the next call.
C9_DeleteWhilePending ==
  \A t \in TaskIds :
    PendingOnDeletedVoice(t) ~>
      (/\ FailedNotFound(t)
       /\ b_pc[t] = "done"
       /\ t \notin running_tasks
       /\ b_lock = FREE)

\* C9 witness: the voice was stored, delete_voice removed it as the latest
\* call, and the task submitted for it before that call has failed
C9_Witness ==
  \E t \in TaskIds :
    /\ FailedNotFound(t)
    /\ b_pc[t] = "done"
    /\ b_tasks[t].progress = 0
    /\ b_tasks[t].request.voice_id \in StoredIds
    /\ ret.op = "delete_voice" /\ ret.val = TRUE
    /\ ret.arg = b_tasks[t].request.voice_id

\* one client that waits for each answer before its next add_voice call
FirstCaller == CHOOSE c \in Callers : \A d \in Callers : c <= d

NextV ==
  \/ \E vc \in VoiceCreates, q \in Qualities : add_voice_call(FirstCaller, vc, q)
  \/ av_temp_saved(FirstCaller)
  \/ av_validated(FirstCaller)
  \/ \E copy_ok \in BOOLEAN, persist_ok \in BOOLEAN : av_probed(FirstCaller, copy_ok, persist_ok)
  \/ \E convert_ok \in BOOLEAN, persist_ok \in BOOLEAN : av_converted(FirstCaller, convert_ok, persist_ok)
  \/ \E extract_ok \in BOOLEAN, persist_ok \in BOOLEAN : av_extracted(FirstCaller, extract_ok, persist_ok)
  \/ \E v \in VoiceIds, persist_ok \in BOOLEAN : delete_voice(v, persist_ok)

SpecV == Init /\ [][NextV]_vars

\* clients calling add_voice at the same time, with usable uploads and a disk
\* that takes every write
NextVC ==
  \/ \E c \in Callers, vc \in VoiceCreates : add_voice_call(c, vc, "good")
  \/ \E c \in Callers : av_temp_saved(c)
  \/ \E c \in Callers : av_validated(c)
  \/ \E c \in Callers : av_probed(c, TRUE, TRUE)
  \/ \E c \in Callers : av_converted(c, TRUE, TRUE)
  \/ \E c \in Callers, extract_ok \in BOOLEAN : av_extracted(c, extract_ok, TRUE)
  \/ \E v \in VoiceIds : delete_voice(v, TRUE)

SpecVC == Init /\ [][NextVC]_vars

\* the voice store under mutations, failing file operations, crashes and
\* restarts; one voice goes through add_voice, the stored one is there from
\* the start
StoreCreates == {vc \in VoiceCreates : vc.voice_id \notin StoredIds}

NextS ==
  \/ Tick
  \/ \E vc \in StoreCreates, md \in {NULL, "embedding"} : s_add_voice(vc, md)
  \/ \E v \in VoiceIds, patch \in VoiceUpdates : update_voice(v, patch)
  \/ \E v \in VoiceIds : s_delete_voice(v)
  \/ \E ok \in BOOLEAN : save_open(ok)
  \/ \E ok \in BOOLEAN : save_write(ok)
  \/ \E ok \in BOOLEAN : save_replace(ok)
  \/ crash
  \/ initialize

SpecS == Init /\ [][NextS]_vars

\* manager B and the voice store side by side: submission, execution, status
\* polling and sweep of tasks (without callbacks), with one add, update or
\* delete of a voice and its stepwise save
NextD ==
  \/ Tick
  \/ \E t \in TaskIds, r \in Requests : r.callback_url = NULL /\ create_task(t, r)
  \/ \E t \in TaskIds \cup {UnknownId} : b_get_task_status(t)
  \/ \E h \in 0..MaxTaskAge : cleanup_completed_tasks(h)
  \/ \E t \in TaskIds : b_process_start(t)
  \/ \E t \in TaskIds : b_thread_lookup(t)
  \/ \E t \in TaskIds, o \in InferenceOutcomes : b_thread_infer(t, o)
  \/ \E t \in TaskIds : b_after_synth(t)
  \/ \E t \in TaskIds : b_thread_duration(t)
  \/ \E t \in TaskIds : b_complete(t)
  \/ \E vc \in StoreCreates : s_n = 0 /\ s_add_voice(vc, NULL)
  \/ \E v \in VoiceIds, patch \in [{"name"} -> {"new"}] : s_n = 0 /\ update_voice(v, patch)
  \/ \E v \in VoiceIds : s_n = 0 /\ s_delete_voice(v)
  \/ \E ok \in BOOLEAN : save_open(ok)
  \/ \E ok \in BOOLEAN : save_write(ok)
  \/ \E ok \in BOOLEAN : save_replace(ok)

SpecD == Init /\ [][NextD]_vars

\* the store with delete_voice followed statement by statement: a crash of
\* the process may fall between os.remove and the removal of the record
NextR ==
  \/ \E vc \in StoreCreates, md \in {NULL, "embedding"} : s_add_voice(vc, md)
  \/ \E v \in VoiceIds, patch \in [{"name"} -> {"new"}] : update_voice(v, patch)
  \/ \E v \in VoiceIds, remove_ok \in BOOLEAN : s_delete_begin(v, remove_ok)
  \/ s_delete_record
  \/ \E ok \in BOOLEAN : save_open(ok)
  \/ \E ok \in BOOLEAN : save_write(ok)
  \/ \E ok \in BOOLEAN : save_replace(ok)
  \/ crash
  \/ initialize

SpecR == Init /\ [][NextR]_vars

\* the store with its listings
NextQ ==
  \/ NextS
  \/ \E vt \in VoiceTypeFilters, lang \in LanguageFilters, page \in Pages, ps \in PageSizes :
       list_voices(vt, lang, page, ps)

SpecQ == Init /\ [][NextQ]_vars

\* ------------------------------------------------------------------------
\* Start of the server on a cache file of any content
\* ------------------------------------------------------------------------

\* what the cache file holds for one voice_id: nothing, a record as
\* _save_to_disk writes it, a record with name null, a record without its
\* voice_id, a record whose created_at is no ISO timestamp
EntryKinds == {"absent", "valid", "no name", "no voice_id", "bad created_at"}

FileEntry(v, kind) ==
  LET d == voice_dict(StoredVoice(v))
  IN  [key |-> v,
       value |-> CASE kind = "no name" -> [d EXCEPT !.name = NULL]
                   [] kind = "no voice_id" -> [d EXCEPT !.voice_id = NULL]
                   [] kind = "bad created_at" -> [d EXCEPT !.created_at = <<"yesterday", 0>>]
                   [] OTHER -> d]

\* the cache files the server may find: none, or a JSON object with an entry
\* of some kind per voice_id, complete or cut off before its closing brace
CacheDocs ==
  {NoFile} \cup
  { [exists |-> TRUE,
     entries |-> LET ids == SelectSeq(VoiceOrder, LAMBDA v : k[v] # "absent")
                 IN  [i \in 1..Len(ids) |-> FileEntry(ids[i], k[ids[i]])],
     closed |-> c] : k \in [VoiceIds -> EntryKinds], c \in BOOLEAN }

\* the server process is not running; the cache file is whatever was left
InitL ==
  /\ InitA /\ InitB /\ InitE /\ InitT
  /\ model_loaded = FALSE
  /\ voices = [v \in {} |-> NULL]
  /\ files = [p \in {get_voice_audio_path(v, "wav") : v \in VoiceIds} |-> StoredUpload]
  /\ spk2info = {}
  /\ initialized = FALSE
  /\ db_file \in CacheDocs
  /\ v_pc = [c \in Callers |-> "idle"]
  /\ v_args = [c \in Callers |-> NoCall]
  /\ tmp_file = NoFile
  /\ s_pc = "down"
  /\ s_call = NoMutation
  /\ s_n = 0

SpecL == InitL /\ [][NextS]_vars

\* C10: an add_voice call for a voice_id that has a record fails with
\* VoiceAlreadyExists (the conflict answer 409 of create_voice) and leaves the
\* store as it was: records, audio files, cache file and speaker table.
C10_DuplicateAddRejected ==
  [][(/\ ret'.seq # ret.seq
      /\ ret'.op = "add_voice"
      /\ ret'.arg \in DOMAIN voices
      /\ v_pc' = v_pc) =>
       /\ ret'.val.kind = "VoiceAlreadyExistsError"
       /\ create_voice_status(ret'.val.kind) = 409
       /\ voices' = voices
       /\ files' = files
       /\ db_file' = db_file
       /\ spk2info' = spk2info]_vars

\* C11: whenever the server process dies during a store mutation, between the
\* write of the temporary file and its rename included, the cache file holds
\* the content it had before the mutation: the file is a complete document in
\* every state, only the rename changes it, and what the rename puts there is
\* the complete serialization of the map.
C11_CrashKeepsBackingFile ==
  /\ [](db_file.exists /\ db_file.closed)
  /\ [][(s_pc # "written" \/ s_pc' = "down") => db_file' = db_file]_vars
  /\ [][db_file' # db_file => (tmp_file = Dump(voices) /\ db_file' = tmp_file)]_vars

\* C11 witness: the process died after the temporary file was written in
\* full and before it was renamed over the cache file
C11_Witness ==
  /\ s_pc = "down"
  /\ tmp_file.exists /\ tmp_file.closed
  /\ tmp_file # db_file
  /\ db_file = Dump([v \in StoredIds |-> StoredVoice(v)])

\* C12: when a store mutation (add, update, delete) ends successfully, a fresh
\* store loaded from the cache file holds exactly the voice_ids of the map in
\* memory and, for each, a record equal to the one in memory (timestamps
\* compared after parsing their ISO form back).
C12_PersistenceRoundTrip ==
  [][(s_pc = "written" /\ s_pc' = "idle" /\ ~ret'.raised) => Load(db_file') = voices']_vars

\* C13: when an add_voice call that went past its first checks ends with an
\* exception, the exception reaches the caller and no audio file of that call
\* is left: neither its temporary upload nor the reference file at the voice's
\* target path.
C13_FailedAddLeavesNoFile ==
  [][\A c \in Callers :
       (v_pc[c] # "idle" /\ v_pc'[c] = "idle" /\ ret'.val.kind # "VoiceInDB") =>
         LET vc == v_args[c].voice_create
         IN  /\ ret'.op = "add_voice" /\ ret'.arg = vc.voice_id /\ ret'.raised
             /\ TempPath(c) \notin DOMAIN files'
             /\ get_voice_audio_path(vc.voice_id, vc.audio_format) \notin DOMAIN files']_vars

\* C14: in every state after initialization, a record of the voice store has
\* model data if and only if its voice_id is in the engine's speaker table
\* spk2info.
C14_ModelDataIffRegistered ==
  initialized =>
    \A v \in DOMAIN voices : (voices[v].model_data # NULL) <=> (v \in spk2info)

\* C15: delete_voice(id) for an id that has a record removes that record and
\* no other, so that get_voice(id) is None and voice_exists(id) is false
\* afterwards, and it answers True (when the cache file cannot be written the
\* call ends with that error instead of an answer); for an id without a record
\* it answers False and leaves the records as they were.  True is answered for
\* no other call.
C15_DeleteAnswersFound ==
  [][\A v \in VoiceIds :
       (ret'.seq # ret.seq /\ ret'.op = "delete_voice" /\ ret'.arg = v) =>
           IF voice_exists(v)
           THEN /\ IF ret'.raised
                   THEN ret'.val = Exc("Exception", MsgSaveFailed) /\ db_file' = db_file
                   ELSE ret'.val = TRUE /\ db_file' = Dump(voices')
                /\ ~voice_exists(v)'
                /\ get_voice(v)' = <<>>
                /\ DOMAIN voices' = DOMAIN voices \ {v}
                /\ \A u \in DOMAIN voices' : voices'[u] = voices[u]
           ELSE /\ ~ret'.raised
                /\ ret'.val = FALSE
                /\ voices' = voices /\ db_file' = db_file /\ files' = files]_vars

\* C15 witness: a voice that came in through add_voice was deleted with the
\* answer True, and the voice stored before is still there
C15_Witness ==
  /\ ret.op = "delete_voice" /\ ~ret.raised /\ ret.val = TRUE
  /\ ret.arg \notin StoredIds
  /\ get_voice(ret.arg) = <<>>
  /\ \A v \in StoredIds : voice_exists(v)

\* C16: update_voice(id, patch) on a stored id sets the fields given in the
\* patch (name, description, language) and updated_at, and leaves every other
\* field of that record (voice_id, voice_type, prompt_text, audio path and
\* metadata, model data), every other record, the audio files and the speaker
\* table as they were, also while the change is saved; for an id that is not
\* stored it returns None and changes nothing.
C16_UpdateChangesOnlyPatch ==
  /\ [][\A v \in VoiceIds :
          (s_pc = "idle" /\ s_call'.op = "update_voice" /\ s_call'.arg = v) =>
            /\ v \in DOMAIN voices
            /\ DOMAIN s_call'.patch \subseteq UpdateFields
            /\ DOMAIN voices' = DOMAIN voices
            /\ \A u \in DOMAIN voices \ {v} : voices'[u] = voices[u]
            /\ DOMAIN voices'[v] = DOMAIN voices[v]
            /\ \A f \in DOMAIN voices[v] :
                 voices'[v][f] = IF f \in DOMAIN s_call'.patch THEN s_call'.patch[f]
                                 ELSE IF f = "updated_at" THEN now
                                 ELSE voices[v][f]
            /\ files' = files /\ spk2info' = spk2info /\ db_file' = db_file]_vars
  /\ [][(s_call.op = "update_voice" /\ s_pc' # "down") =>
          (voices' = voices /\ files' = files /\ spk2info' = spk2info)]_vars
  /\ [][\A v \in VoiceIds :
          (ret'.seq # ret.seq /\ ret'.op = "update_voice" /\ ret'.arg = v /\ ~voice_exists(v)) =>
            /\ ~ret'.raised /\ ret'.val = NoneReturned
            /\ voices' = voices /\ files' = files /\ spk2info' = spk2info
            /\ db_file' = db_file /\ tmp_file' = tmp_file]_vars

\* C16 witness: with two records stored, an update of one of them that set the
\* description alone has been saved at a later time than the record was made
C16_Witness ==
  /\ ret.op = "update_voice" /\ ~ret.raised /\ ret.val = VoiceReturned
  /\ s_pc = "idle"
  /\ DOMAIN voices = VoiceIds
  /\ voices[ret.arg].description = "new"
  /\ voices[ret.arg].name = "name"
  /\ voices[ret.arg].updated_at > voices[ret.arg].created_at
  /\ db_file = Dump(voices)

\* C17: a request to the audio endpoint for a filename that has no file in
\* the output directory is answered 404.
C17_MissingAudioIs404 ==
  \A t \in TaskIds \cup {UnknownId} :
    get_output_audio_path(t) \notin DOMAIN files => get_audio_file_status(t) = 404

\* C18: the cancel endpoint answers success (200) when the task was pending
\* and is now cancelled, 400 when the task exists and is not pending, and 404
\* when the task_id is unknown.
C18_CancelStatusCodes ==
  [][\A t \in TaskIds \cup {UnknownId} :
       (ret'.seq # ret.seq /\ ret'.op = "cancel_task" /\ ret'.arg = t) =>
         cancel_task_status(ret'.val) =
           IF t \notin DOMAIN a_tasks THEN 404
           ELSE IF a_tasks[t].status = PENDING THEN 200
           ELSE 400]_vars

\* C19: a task that is pending or processing has no completed_at and a task
\* that is completed or failed has one; completed_at is set only by a step that
\* takes the task out of processing (or, for a failure in the first segment of
\* the execution, out of pending through processing) into a terminal status,
\* and once set it is never changed.
C19_CompletedAtSetOnce ==
  /\ [](\A t \in DOMAIN b_tasks :
          (b_tasks[t].status \in Terminal) <=> (b_tasks[t].completed_at # NoTime))
  /\ [][\A t \in DOMAIN b_tasks \cap DOMAIN b_tasks' :
          /\ b_tasks[t].completed_at # NoTime =>
               b_tasks'[t].completed_at = b_tasks[t].completed_at
          /\ (b_tasks[t].completed_at = NoTime /\ b_tasks'[t].completed_at # NoTime) =>
               (b_tasks[t].status \notin Terminal /\ b_tasks'[t].status \in Terminal
                /\ b_pc'[t] # b_pc[t])]_vars

\* C20: when the execution of a task raises, the step that takes the task from
\* processing to failed sets the error message and leaves progress at the value
\* it had before the failure.
C20_FailureKeepsProgress ==
  [][\A t \in DOMAIN b_tasks \cap DOMAIN b_tasks' :
       (/\ b_pc'[t] # b_pc[t]
        /\ b_tasks[t].status = PROCESSING
        /\ b_tasks'[t].status = FAILED) =>
         /\ b_tasks'[t].error_message # NoMsg
         /\ b_tasks'[t].progress = b_tasks[t].progress]_vars

\* the tasks of manager A older than the retention window
a_Expired == {t \in DOMAIN a_tasks : now - a_tasks[t].created_at > MaxTaskAge}

SaveFails ==
  /\ s_pc' = "idle"
  /\ \/ s_pc \in {"opening", "writing"}
     \/ s_pc = "written" /\ tmp_file'.exists

\* the mutation of the call in progress is in the map vs
MutationIn(vs) ==
  CASE s_call.op = "add_voice" -> s_call.arg \in DOMAIN vs
    [] s_call.op = "delete_voice" -> s_call.arg \notin DOMAIN vs
    [] s_call.op = "update_voice" ->
         /\ s_call.arg \in DOMAIN vs
         /\ \A f \in DOMAIN s_call.patch : vs[s_call.arg][f] = s_call.patch[f]
    [] OTHER -> FALSE

\* C22: when a file operation of the persist inside add_voice, update_voice or
\* delete_voice fails, that call ends with the exception, the cache lock is
\* free again, the in-memory map keeps the mutation and the cache file keeps
\* its content; the cache file changes only by a persist that succeeds, which
\* writes the whole in-memory map.
C22_FailedPersistDiverges ==
  /\ [][SaveFails =>
          /\ ret'.seq # ret.seq /\ ret'.raised
          /\ ret'.op = s_call.op /\ ret'.arg = s_call.arg
          /\ ret'.val = Exc("Exception", MsgSaveFailed)
          /\ voices' = voices /\ MutationIn(voices')
          /\ db_file' = db_file]_vars
  /\ [][db_file' # db_file =>
          /\ s_pc = "written" /\ s_pc' = "idle" /\ ~ret'.raised
          /\ db_file' = Dump(voices')]_vars

\* a mutating call has ended with the persist error: the lock is free, the map
\* holds a voice the cache file does not
C22_Witness ==
  /\ ret.raised /\ ret.val = Exc("Exception", MsgSaveFailed)
  /\ ret.op = "add_voice"
  /\ s_pc = "idle"
  /\ ret.arg \in DOMAIN voices
  /\ ret.arg \notin DOMAIN Load(db_file)

\* the entry is one VoiceInDB(**voice_data) accepts after its timestamps
\* were parsed
ValidEntry(e) == Parses(e.value) /\ Validates(e.value)

\* C23: the load at startup never raises (the initialization goes through):
\* with no cache file the store is empty; from a cache file that is a JSON
\* object, every valid record is loaded as it was written and every record
\* that is corrupt or cannot be parsed is left out.  (A file that is no JSON
\* document at all gives the empty store.)
C23_LoadSkipsCorrupt ==
  [][(s_pc = "down" /\ s_pc' # "down") =>
       /\ initialized' /\ s_pc' = "idle" /\ ret' = ret
       /\ ~db_file.exists => DOMAIN voices' = {}
       /\ (db_file.exists /\ ~db_file.closed) => DOMAIN voices' = {}
       /\ (db_file.exists /\ db_file.closed) =>
            /\ \A i \in DOMAIN db_file.entries :
                 LET e == db_file.entries[i]
                 IN  IF ValidEntry(e)
                     THEN /\ e.key \in DOMAIN voices'
                          /\ voice_dict(voices'[e.key]) = e.value
                     ELSE e.key \notin DOMAIN voices'
            /\ DOMAIN voices' \subseteq {db_file.entries[i].key : i \in DOMAIN db_file.entries}]_vars

\* the server has started on a cache file with a corrupt record and a valid
\* one: the store holds the valid one only
C23_Witness ==
  /\ s_pc = "idle" /\ initialized /\ s_n = 0
  /\ db_file.closed /\ Len(db_file.entries) = 2
  /\ ~ValidEntry(db_file.entries[1])
  /\ ValidEntry(db_file.entries[2])
  /\ DOMAIN voices = {db_file.entries[2].key}

\* C24: in cached cross-lingual synthesis the loop takes a further chunk only
\* while the chunk count is below the maximum (200, 100 for Japanese text) and
\* the collected sample count does not exceed max_samples; what is collected
\* is every chunk the model yielded up to and including the one that reached
\* a limit, in arrival order, and that is what is saved.
C24_LimitsKeepAudio ==
  e_call.shape = "cross_lingual_cached" =>
    LET limit == \/ chunk_count >= (IF e_call.is_japanese THEN 100 ELSE 200)
                 \/ SampleCount(all_audio_data) >
                      (e_call.sample_rate * e_call.text_len * 15) \div (2 * e_call.speed)
    IN  /\ all_audio_data = [i \in 1..chunk_count |-> Chunk(e_call, i)]
        /\ e_pc = "consuming" => ~limit
        /\ e_pc = "done" =>
             /\ limit \/ ~HasNext(e_call, chunk_count)
             /\ SampleCount(all_audio_data) > 0 =>
                  (e_output_path \in DOMAIN files /\ files[e_output_path] = all_audio_data)

\* the call ended on the sample limit while the model had more to yield: the
\* chunk that crossed the limit is in the saved audio
C24_Witness ==
  /\ e_call.shape = "cross_lingual_cached" /\ e_pc = "done"
  /\ HasNext(e_call, chunk_count)
  /\ chunk_count > 1
  /\ chunk_count < max_chunks(e_call)
  /\ SampleCount(all_audio_data) > max_samples(e_call)
  /\ SampleCount(SubSeq(all_audio_data, 1, chunk_count - 1)) <= max_samples(e_call)
  /\ files[e_output_path] = all_audio_data

\* C25: in every call shape (zero-shot with reference audio, instruct /
\* cross-lingual with reference audio, cross-lingual with a cached voice) the
\* loop stops taking chunks at the maximum chunk count at the latest, however
\* long the model goes on yielding.
C25_EveryShapeBounded ==
  chunk_count <= MaxChunks

\* C30: every clone-style call invokes the model's cross-lingual entry point
\* when the loaded model has one, and zero-shot, with an empty prompt text,
\* only when it has none.
C30_CrossLingualPreferred ==
  e_pc # "idle" =>
    /\ e_call.has_cross_lingual => e_entry.name = "inference_cross_lingual"
    /\ e_entry.name = "inference_zero_shot" =>
         (~e_call.has_cross_lingual /\ e_entry.prompt_text = "")

\* the synthesis of task t ended because the model yielded no audio chunk
NoAudio(t) == b_fut[t] = Raised(SynthesisError(MsgNoAudio))

\* C26: when the model yields no audio chunk the synthesis raises
\* SynthesisError "No audio generated" and writes no output file; the
\* execution then ends with the task failed, that error as its message, and
\* such a task stays failed without an output file.
C26_NoChunksFails ==
  /\ [][\A t \in TaskIds :
          (b_thread_infer(t, "no chunks") /\ b_fut[t].val \in DOMAIN files) =>
            /\ NoAudio(t)'
            /\ Contains(b_fut'[t].val, "No audio generated")
            /\ files' = files]_vars
  /\ [][\A t \in TaskIds :
          (NoAudio(t) /\ b_pc'[t] # b_pc[t]) =>
            /\ b_pc'[t] = "done"
            /\ files' = files
            /\ t \in DOMAIN b_tasks =>
                 /\ t \in DOMAIN b_tasks'
                 /\ b_tasks'[t].status = FAILED
                 /\ b_tasks'[t].error_message = SynthesisError(MsgNoAudio)
                 /\ b_tasks'[t].audio_url = NoPath]_vars
  /\ [](\A t \in DOMAIN b_tasks :
          (b_pc[t] = "done" /\ get_output_audio_path(t) \notin DOMAIN files) =>
            b_tasks[t].status = FAILED)

\* the execution of a task is over after the model yielded no chunk: the task
\* is failed with that error and there is no output file
C26_Witness ==
  \E t \in DOMAIN b_tasks :
    /\ b_pc[t] = "done"
    /\ b_tasks[t].status = FAILED
    /\ b_tasks[t].error_message = SynthesisError(MsgNoAudio)
    /\ get_output_audio_path(t) \notin DOMAIN files

\* C27: a listing with a limit answers at most limit tasks, newest first by
\* created_at, and they are the limit most recently created tasks of the
\* registry.
C27_ListNewestFirst ==
  \A limit \in 0..MaxTasks :
    LET r == b_list_tasks_result
        listed == {r[i] : i \in DOMAIN r}
    IN  /\ Len(r) <= limit
        /\ \A i, j \in DOMAIN r :
             i < j => b_tasks[r[i]].created_at >= b_tasks[r[j]].created_at
        /\ Cardinality(DOMAIN b_tasks) >= limit => Len(r) = limit
        /\ \A t \in DOMAIN b_tasks \ listed :
             \A u \in listed : b_tasks[u].created_at >= b_tasks[t].created_at

\* the stored voices a listing with these filters is about: a filter that is
\* given (neither None nor empty) must match
Matching(voice_type, language) ==
  {v \in DOMAIN voices :
     /\ voice_type # NULL => voices[v].voice_type = voice_type
     /\ language \notin {NULL, ""} => voices[v].language = language}

\* C28: list_voices answers total = the number of stored voices matching every
\* filter given, whatever the page, and as records the positions
\* (page-1)*page_size (inclusive) to page*page_size (exclusive) of the matching
\* voices; without a filter total is the number of stored voices.
C28_ListVoicesTotalAndSlice ==
  \A vt \in VoiceTypeFilters, lang \in LanguageFilters, page \in Pages, ps \in PageSizes :
    LET r == list_voices_result(vt, lang, page, ps)
        ids == SelectSeq(VoiceOrder, LAMBDA v : v \in Matching(vt, lang))
        first == (page - 1) * ps
    IN  /\ r.total = Cardinality(Matching(vt, lang))
        /\ (vt = NULL /\ lang = NULL) => r.total = Cardinality(DOMAIN voices)
        /\ \A i \in 1..ps :
             IF first + i <= Len(ids)
             THEN i \in DOMAIN r.voices /\ r.voices[i] = voices[ids[first + i]]
             ELSE i \notin DOMAIN r.voices
        /\ Len(r.voices) <= ps

\* two voices are stored; a filter matches one of them, and the second page of
\* the unfiltered listing with page_size 1 holds the second voice
C28_Witness ==
  /\ DOMAIN voices = {"v1", "v2"}
  /\ list_voices_result("sft", NULL, 1, 2).total = 1
  /\ list_voices_result(NULL, "new", 1, 1).total = 1
  /\ list_voices_result(NULL, NULL, 2, 1) = [voices |-> <<voices["v2"]>>, total |-> 2]

\* C29: every record of the voice store whose voice_type is a cloned type
\* (zero_shot or cross_lingual) has a prompt_text, whatever add_voice and
\* update_voice calls were made.
C29_ClonedHasPromptText ==
  \A v \in DOMAIN voices :
    voices[v].voice_type \in ClonedTypes => voices[v].prompt_text # NULL

\* C31: every mutation of the voice cache takes the lock, changes the map,
\* persists and releases the lock, in that order: the map changes only in the
\* step that takes the lock, one mutation at a time holds it, the backing file
\* changes only with the replace that ends a persist, and from the return of a
\* mutation that persisted until the next mutation the backing file is the
\* dump of the map.
C31_MutationLockMutatePersist ==
  /\ [][voices' # voices =>
          \/ s_pc = "idle" /\ s_pc' = "opening" /\ s_call = NoMutation
          \/ s_pc' = "down" \/ s_pc = "down"]_vars
  /\ [][s_call' # s_call => (s_call = NoMutation \/ s_call' = NoMutation)]_vars
  /\ [][db_file' # db_file =>
          s_pc = "written" /\ s_pc' = "idle" /\ ~ret'.raised]_vars
  /\ [][(s_pc = "written" /\ s_pc' = "idle" /\ ~ret'.raised) =>
          db_file' = Dump(voices')]_vars
  /\ [][(s_pc = "idle" /\ s_pc' = "idle" /\ db_file = Dump(voices)) =>
          db_file' = Dump(voices')]_vars

\* two mutations have run, the second an update_voice that persisted: the
\* lock is free and the backing file is the dump of the two records
C31_Witness ==
  /\ s_pc = "idle"
  /\ s_n = MaxMutations
  /\ ret.op = "update_voice" /\ ~ret.raised /\ ret.val = VoiceReturned
  /\ Cardinality(DOMAIN voices) = 2
  /\ db_file = Dump(voices)

\* C32: every access to the task map or to a record of it (insert, status or
\* progress transition, read of a record's fields by the background job,
\* delete) is made by a coroutine that holds tasks_lock.
C32_TaskMapUnderLock ==
  [][\A t \in TaskIds :
       (tasks_storage' # tasks_storage \/ t_move(t)) => tasks_lock # NoHolder]_vars

\* a store mutation is between its change of the map and the end of its save:
\* the cache lock is held
CacheLockHeld == s_pc \in {"opening", "writing", "written"}

\* C33: the task lock and the cache lock are never held at the same time, and
\* no state is a deadlock: every started execution, the store mutation in
\* progress, a status poll, the sweep, a submission and a voice mutation that
\* waits for nothing but a lock can take a step.
C33_LocksNeverNested ==
  /\ ~(b_lock # FREE /\ CacheLockHeld)
  /\ \A t \in TaskIds : b_pc[t] \notin {"none", "done"} => ENABLED b_execute(t)
  /\ CacheLockHeld =>
       ENABLED (save_open(TRUE) \/ save_write(TRUE) \/ save_replace(TRUE))
  /\ \A t \in TaskIds \cup {UnknownId} : ENABLED b_get_task_status(t)
  /\ ENABLED cleanup_completed_tasks(MaxTaskAge)
  /\ \A t \in b_FreshIds : \A r \in Requests : ENABLED create_task(t, r)
  /\ (s_pc = "idle" /\ s_n < MaxMutations) =>
       \A v \in VoiceIds : ENABLED s_delete_voice(v) /\ ENABLED update_voice(v, EmptyPatch)

\* a synthesis runs in a worker thread and another execution waits to start
\* while a voice mutation is writing the cache file
C33_Witness ==
  /\ \E t, u \in TaskIds : b_pc[t] = "th_infer" /\ b_pc[u] = "scheduled"
  /\ s_pc = "writing"

\* C34: delete_voice takes the voice out of spk2info first, then the record
\* out of the store, and only then removes the audio file: a record leaves
\* the map only when its speaker is no longer registered, and no step takes
\* away the audio file of a voice whose record is in the store afterwards.
C34_DeleteOrder ==
  /\ [][\A v \in VoiceIds :
          (v \in DOMAIN voices /\ v \notin DOMAIN voices' /\ s_pc' # "down")
            => v \notin spk2info]_vars
  /\ [][\A v \in DOMAIN voices' :
          voices'[v].audio_file_path \in DOMAIN files
            => voices'[v].audio_file_path \in DOMAIN files']_vars

\* C35: the callback is attempted only once the task is marked completed;
\* while it is in flight and when it ends, whatever its outcome, the task's
\* record stays as it was, and the execution ends with the task out of
\* running_tasks.
C35_CallbackLeavesTask ==
  /\ [](\A t \in TaskIds :
          (b_pc[t] = "callback" /\ t \in DOMAIN b_tasks) =>
            /\ b_tasks[t].status = COMPLETED
            /\ b_tasks[t].completed_at # NoTime
            /\ b_req[t].callback_url # NULL)
  /\ [][\A t \in TaskIds :
          (b_pc[t] = "callback" /\ t \in DOMAIN b_tasks /\ t \in DOMAIN b_tasks')
            => b_tasks'[t] = b_tasks[t]]_vars
  /\ [][\A t \in TaskIds :
          (b_pc[t] = "callback" /\ b_pc'[t] # "callback")
            => b_pc'[t] = "done" /\ t \notin running_tasks' /\ b_tasks' = b_tasks]_vars

\* the callback of a completed task has ended: the record is as the
\* completion left it and the task is out of running_tasks
C35_Witness ==
  \E t \in DOMAIN b_tasks :
    /\ b_pc[t] = "done"
    /\ b_req[t].callback_url # NULL
    /\ b_tasks[t].status = COMPLETED
    /\ b_tasks[t].audio_url # NoPath
    /\ t \notin running_tasks

\* the step in which the add_voice call of c returns the new record
AddSucceeds(c) ==
  /\ v_pc[c] # "idle" /\ v_pc'[c] = "idle"
  /\ ret' # ret /\ ~ret'.raised

\* C36: of the add_voice calls that run at the same time with one voice_id
\* at most one succeeds, the store holds one record for the id, and the audio
\* file of the id is the upload of the call that succeeded: a call succeeds
\* only for an id that has no record, the file at the record's path is then
\* its own upload, and no later step of another call replaces the file of a
\* record in the store.
C36_ConcurrentAddOneWinner ==
  /\ [][\A c \in Callers :
          AddSucceeds(c) =>
            LET vc == v_args[c].voice_create
                target == get_voice_audio_path(vc.voice_id, vc.audio_format)
            IN  /\ vc.voice_id \notin DOMAIN voices
                /\ vc.voice_id \in DOMAIN voices'
                /\ target \in DOMAIN files' /\ files'[target] = Upload(c)]_vars
  /\ [][\A v \in DOMAIN voices \cap DOMAIN voices' :
          voices[v].audio_file_path \in DOMAIN files =>
            /\ voices[v].audio_file_path \in DOMAIN files'
            /\ files'[voices[v].audio_file_path] = files[voices[v].audio_file_path]]_vars

\* the tasks cleanup_completed_tasks(max_age) is to remove: completed or
\* failed, and older than max_age
b_Expired(max_age) ==
  {t \in DOMAIN b_tasks : /\ b_tasks[t].status \in {COMPLETED, FAILED}
                          /\ now - b_tasks[t].created_at > max_age}

\* C37: cleanup_completed_tasks(max_age_hours) removes exactly the tasks that
\* are completed or failed and older than max_age_hours; a pending or
\* processing task stays whatever its age, and no record is modified.
C37_CleanupRemovesExactlyOld ==
  [][\A h \in 0..MaxTaskAge :
       cleanup_completed_tasks(h) =>
         /\ DOMAIN b_tasks' = DOMAIN b_tasks \ b_Expired(h)
         /\ \A t \in DOMAIN b_tasks :
              b_tasks[t].status \in {PENDING, PROCESSING} => t \in DOMAIN b_tasks'
         /\ \A t \in DOMAIN b_tasks' : b_tasks'[t] = b_tasks[t]]_vars

\* a finished task was swept from the map while a processing task as old as
\* it is still there
C37_Witness ==
  \E t \in TaskIds, u \in DOMAIN b_tasks :
    /\ b_pc[t] = "done" /\ t \notin DOMAIN b_tasks
    /\ b_tasks[u].status = PROCESSING
    /\ now - b_tasks[u].created_at > 0

C39_DeleteLeavesOtherFiles ==
  [][\A t \in TaskIds :
       t_delete(t) =>
         \A u \in DOMAIN tasks_storage' :
           /\ tasks_storage'[u] = tasks_storage[u]
           /\ (tasks_storage[u].status = "completed" /\ tasks_storage[u].file_path \in DOMAIN files)
                => tasks_storage[u].file_path \in DOMAIN files']_vars

\* the speakers the loaded model has of its own (list_available_spks): they
\* are in model.frontend.spk2info from the load of the model on, and the
\* voice cache has no record of them
PretrainedSpks == {"voice1"}

\* startup with a model that has speakers of its own: the cached voices are
\* registered next to them
InitP ==
  /\ InitA /\ InitB /\ InitE /\ InitT
  /\ model_loaded = TRUE
  /\ voices = [v \in StoredIds |-> StoredVoice(v)]
  /\ files = [p \in {get_voice_audio_path(v, "wav") : v \in StoredIds} |-> StoredUpload]
  /\ spk2info = PretrainedSpks \cup StoredIds
  /\ initialized = TRUE
  /\ db_file = Dump(voices)
  /\ v_pc = [c \in Callers |-> "idle"]
  /\ v_args = [c \in Callers |-> NoCall]
  /\ tmp_file = NoFile
  /\ s_pc = "idle"
  /\ s_call = NoMutation
  /\ s_n = 0

\* the calls of SpecV; DELETE /voices/{voice_id} takes any id, the name of a
\* speaker of the model included
NextP ==
  \/ NextV
  \/ \E v \in PretrainedSpks, persist_ok \in BOOLEAN : delete_voice(v, persist_ok)

SpecP == InitP /\ [][NextP]_vars

\* C40: delete_voice(id) for an id that has no record in the voice cache
\* returns False and leaves the records, the cache file, the audio files and
\* the engine's speaker table, the model's own speakers included, unchanged.
C40_DeleteUnknownChangesNothing ==
  [][\A v \in VoiceIds \cup PretrainedSpks :
       (/\ ret'.seq # ret.seq /\ ret'.op = "delete_voice" /\ ret'.arg = v
        /\ v \notin DOMAIN voices) =>
         /\ ~ret'.raised /\ ret'.val = FALSE
         /\ voices' = voices
         /\ db_file' = db_file
         /\ files' = files
         /\ spk2info' = spk2info]_vars
====
